---- MODULE Spec2Model ----
(***************************************************************************)
(* Model of gregra81/research-agent: the FastAPI gateway of src/app/api.py *)
(* (sliding-window rate limiter, agent caches, the /research and           *)
(* /deep-research handlers), ResearchAgent.research of src/app/agent.py    *)
(* (retry with exponential backoff, error conversion, usage extraction)    *)
(* and DeepResearchAgent.deep_research (the seven-stage workflow, its      *)
(* prompts, token accounting, final report and error report).              *)
(*                                                                         *)
(* Time.  time.time() is a float number of seconds.  The model counts it   *)
(* in ticks, TicksPerSecond ticks to the second, so that a reading may     *)
(* fall between two whole seconds and int() in check_rate_limit has        *)
(* something to truncate.                                                  *)
(*                                                                         *)
(* Text.  Python strings are TLA+ strings; len, slicing and `in` are Len,  *)
(* SubSeq and Contains.  The three emoji of the messages are not ASCII and *)
(* are written "#", one character each, as in Python.                      *)
(***************************************************************************)
EXTENDS Integers, Sequences, FiniteSets, TLC

VARIABLES
    now,                  \* time.time(), in ticks
    GOOGLE_API_KEY,       \* os.getenv("GOOGLE_API_KEY") is set (BOOLEAN)
    _request_timestamps,  \* api.py:33, the deque of admitted timestamps
    _agents,              \* api.py:29, (model_name, max_tokens) -> instance
    _deep_agents,         \* api.py:30, model_name -> instance
    objects,              \* number of agent objects constructed so far
    tasks,                \* the coroutines suspended at an await, by slot
    event,                \* what the last step did (operation, outcome)
    admitted,             \* admitted timestamps still within WINDOW of the last admission
    retry,                \* earliest time a rejected caller was told to come back at
    burst,                \* gated calls since the window was last found empty
    catalog               \* the models the provider lists, agent.py:204

vars == << now, GOOGLE_API_KEY, _request_timestamps, _agents, _deep_agents,
           objects, tasks, event, admitted, retry, burst, catalog >>

----------------------------------------------------------------------------
(* Program constants *)

RATE_LIMIT_WINDOW == 60
MAX_REQUESTS_PER_WINDOW == 10
DEQUE_MAXLEN == 50
DEFAULT_MAX_RETRIES == 2
ERROR_DETAIL_CHARS == 200
DEEP_STAGES == 7
DEFAULT_MAX_TOKENS == 512

(* Bounds of the model *)

TicksPerSecond == 2
MaxSeconds == 61
MaxTasks == 2
MaxRetries == 3
MaxListing == 3
MaxInvocations == 3

WindowTicks == RATE_LIMIT_WINDOW * TicksPerSecond
MaxTime == MaxSeconds * TicksPerSecond

Min(a, b) == IF a < b THEN a ELSE b
None == [kind |-> "none"]

----------------------------------------------------------------------------
(* Text *)

\* A text of n characters
RECURSIVE Pad(_)
Pad(n) ==
    IF n <= 0 THEN ""
    ELSE LET half == Pad(n \div 2) IN
         half \o half \o (IF n % 2 = 1 THEN "x" ELSE "")

\* Python's `sub in s`
Contains(s, sub) ==
    \E i \in 1..(Len(s) - Len(sub) + 1) : SubSeq(s, i, i + Len(sub) - 1) = sub

\* Python's s[:n] for n >= 0
Prefix(s, n) == SubSeq(s, 1, Min(n, Len(s)))

----------------------------------------------------------------------------
(* check_rate_limit, api.py:38-58 *)

\* Mutant: `<=` for `<`, a timestamp exactly WINDOW old is dropped
RECURSIVE PopExpiredInclusive(_, _)
PopExpiredInclusive(ts, t) ==
    IF ts # << >> /\ Head(ts) <= t - WindowTicks
    THEN PopExpiredInclusive(Tail(ts), t)
    ELSE ts

\* Mutant: `if` for `while`, one expired timestamp dropped at most
PopExpiredOnce(ts, t) ==
    IF ts # << >> /\ Head(ts) < t - WindowTicks THEN Tail(ts) ELSE ts

\* while _request_timestamps and _request_timestamps[0] < now - WINDOW: popleft()
RECURSIVE PopExpired(_, _)
PopExpired(ts, t) ==
    IF ts # << >> /\ Head(ts) < t - WindowTicks
    THEN PopExpired(Tail(ts), t)
    ELSE ts

\* deque(maxlen=50).append: a full deque drops its leftmost element
DequeAppend(ts, t) ==
    IF Len(ts) >= DEQUE_MAXLEN THEN Append(Tail(ts), t) ELSE Append(ts, t)

\* int(x) for x = ticks / TicksPerSecond: truncation toward zero
IntSeconds(ticks) ==
    IF ticks >= 0 THEN ticks \div TicksPerSecond
    ELSE -((-ticks) \div TicksPerSecond)

\* Mutant: the `+ 1` forgotten
WaitSecondsNoMargin(oldest_request, t) ==
    IntSeconds(WindowTicks - (t - oldest_request))

\* wait_seconds = int(RATE_LIMIT_WINDOW - (now - oldest_request)) + 1
WaitSeconds(oldest_request, t) ==
    IntSeconds(WindowTicks - (t - oldest_request)) + 1

\* Mutant: `>` for `>=`
AtLimitOffByOne(ts) == Len(ts) > MAX_REQUESTS_PER_WINDOW

\* Mutant: the length tested against the capacity of the deque
AtLimitAgainstCapacity(ts) == Len(ts) >= DEQUE_MAXLEN

\* The limit test of line 47
AtLimit(ts) == Len(ts) >= MAX_REQUESTS_PER_WINDOW

\* Mutant: the limit tested before the expired timestamps are dropped
check_rate_limit_TestBeforePurge(ts, t) ==
    IF AtLimit(ts)
    THEN [raised |-> TRUE, ts |-> PopExpired(ts, t),
          wait_seconds |-> WaitSeconds(Head(ts), t)]
    ELSE [raised |-> FALSE, ts |-> DequeAppend(PopExpired(ts, t), t),
          wait_seconds |-> 0]

\* Mutant: the timestamp recorded before the limit is tested
check_rate_limit_RecordFirst(ts, t) ==
    LET kept == PopExpired(ts, t) IN
    IF AtLimit(kept)
    THEN [raised |-> TRUE, ts |-> DequeAppend(kept, t),
          wait_seconds |-> WaitSeconds(Head(kept), t)]
    ELSE [raised |-> FALSE, ts |-> DequeAppend(kept, t), wait_seconds |-> 0]

\* The whole function: the deque it leaves, and whether it raised 429
check_rate_limit(ts, t) ==
    LET kept == PopExpired(ts, t) IN
    IF AtLimit(kept)
    THEN [raised |-> TRUE, ts |-> kept,
          wait_seconds |-> WaitSeconds(Head(kept), t)]
    ELSE [raised |-> FALSE, ts |-> DequeAppend(kept, t), wait_seconds |-> 0]

----------------------------------------------------------------------------
(* ResearchAgent.research, agent.py:48-146 *)

ZeroUsage == [prompt_tokens |-> 0, completion_tokens |-> 0, total_tokens |-> 0]

\* optimized_prompt, lines 60-64
optimized_prompt(max_tokens, query) ==
    "Answer this concisely in " \o ToString(max_tokens \div 2)
        \o " words or less. Be direct and factual. No preamble or conclusion.\n\n"
        \o "Question: " \o query

\* dict.get(key, 0) on a metadata dict that may be empty ({} or missing)
NoCounts == [present |-> FALSE]
Counts(p, c, t) == [present |-> TRUE, prompt_token_count |-> p,
                    candidates_token_count |-> c, total_token_count |-> t]
GetCount(d, field) == IF d.present THEN d[field] ELSE 0

\* Mutant: the flat counts of lines 93-96 not looked at
extract_usage_NoFlat(response, prompt) ==
    LET um == response.usage_metadata
        a == IF response.has_response_metadata /\ um.present
             THEN [prompt_tokens |-> GetCount(um, "prompt_token_count"),
                   completion_tokens |-> GetCount(um, "candidates_token_count"),
                   total_tokens |-> GetCount(um, "total_token_count")]
             ELSE ZeroUsage
        estimated_prompt == Len(prompt) \div 4
        estimated_completion == Len(response.content) \div 4
    IN  IF a.total_tokens = 0
        THEN [prompt_tokens |-> estimated_prompt,
              completion_tokens |-> estimated_completion,
              total_tokens |-> estimated_prompt + estimated_completion]
        ELSE a

\* Lines 71-109: the usage reported for a successful response
extract_usage(response, prompt) ==
    LET um == response.usage_metadata
        \* lines 86-90: `if usage_metadata:` is the truth value of the dict
        a == IF response.has_response_metadata /\ um.present
             THEN [prompt_tokens |-> GetCount(um, "prompt_token_count"),
                   completion_tokens |-> GetCount(um, "candidates_token_count"),
                   total_tokens |-> GetCount(um, "total_token_count")]
             ELSE ZeroUsage
        \* lines 93-96
        b == IF response.has_response_metadata /\ a.total_tokens = 0
             THEN [prompt_tokens |-> GetCount(response.flat, "prompt_token_count"),
                   completion_tokens |-> GetCount(response.flat, "candidates_token_count"),
                   total_tokens |-> GetCount(response.flat, "total_token_count")]
             ELSE a
        \* lines 99-105
        estimated_prompt == Len(prompt) \div 4
        estimated_completion == Len(response.content) \div 4
    IN  IF b.total_tokens = 0
        THEN [prompt_tokens |-> estimated_prompt,
              completion_tokens |-> estimated_completion,
              total_tokens |-> estimated_prompt + estimated_completion]
        ELSE b

\* Mutant: the quota-exhaustion marker not looked for
IsRateLimitError429Only(error_str) == Contains(error_str, "429")

\* Line 115
IsRateLimitError(error_str) ==
    Contains(error_str, "429") \/ Contains(error_str, "RESOURCE_EXHAUSTED")

\* Lines 124-136
QuotaMessage(error_str) ==
    "# **API Quota Exceeded**\n\n"
        \o "You've hit your Google API rate limit. This usually means:\n\n"
        \o "1. **Free tier quota exhausted** - Check your usage at https://makersuite.google.com/\n"
        \o "2. **Too many requests** - Wait a few minutes and try again\n"
        \o "3. **Daily limit reached** - Quota resets daily\n\n"
        \o "# **Solutions:**\n"
        \o "- Wait 1-2 minutes before trying again\n"
        \o "- Use lower token limits (128-256) to conserve quota\n"
        \o "- Consider enabling billing for higher limits\n"
        \o "\n# **Error details:** " \o Prefix(error_str, ERROR_DETAIL_CHARS)

\* Lines 139-143
ErrorHead == "# **Error during research:**\n\n"
ErrorTail == "\n\nPlease check your API key and try again."
\* Mutant: the error text cut as in the quota message
ErrorMessageTruncated(error_str) ==
    ErrorHead \o Prefix(error_str, ERROR_DETAIL_CHARS) \o ErrorTail

ErrorMessage(error_str) == ErrorHead \o error_str \o ErrorTail

\* Line 146
FallThroughMessage == "Error: Max retries exceeded"

Returned(text, usage) == [kind |-> "returned", text |-> text, usage |-> usage]
Raised(error) == [kind |-> "raised", error |-> error]

\* Mutant: `*` for `**`
BackoffLinear(attempt) == 2 * attempt

\* wait_time = 2 ** attempt, line 118
Backoff(attempt) == 2 ^ attempt

\* Mutant: every error retried, not only the rate-limit ones
handle_exception_RetryAny(error_str, attempt, max_retries) ==
    IF attempt < max_retries
    THEN [do |-> "sleep", wait_time |-> Backoff(attempt)]
    ELSE IF IsRateLimitError(error_str)
    THEN [do |-> "return", result |-> Returned(QuotaMessage(error_str), ZeroUsage)]
    ELSE [do |-> "return", result |-> Returned(ErrorMessage(error_str), ZeroUsage)]

\* Mutant: only the rate-limit errors caught, the others raised again
handle_exception_Reraise(error_str, attempt, max_retries) ==
    IF IsRateLimitError(error_str)
    THEN IF attempt < max_retries
         THEN [do |-> "sleep", wait_time |-> Backoff(attempt)]
         ELSE [do |-> "return", result |-> Returned(QuotaMessage(error_str), ZeroUsage)]
    ELSE [do |-> "raise"]

\* The except clause, lines 111-143: sleep and go round again, or return
handle_exception(error_str, attempt, max_retries) ==
    IF IsRateLimitError(error_str)
    THEN IF attempt < max_retries
         THEN [do |-> "sleep", wait_time |-> Backoff(attempt)]
         ELSE [do |-> "return", result |-> Returned(QuotaMessage(error_str), ZeroUsage)]
    ELSE [do |-> "return", result |-> Returned(ErrorMessage(error_str), ZeroUsage)]

\* A research() coroutine: where it stands in the loop of line 66, the
\* completion calls it has issued and the sleeps it has asked for
NoTask == [kind |-> "free"]

ResearchTask(agent, query, max_retries, via) ==
    [kind |-> "research", via |-> via, agent |-> agent, query |-> query,
     max_retries |-> max_retries, attempt |-> 0,
     pc |-> "ainvoke", calls |-> 1, sleeps |-> << >>, seen |-> << >>]

\* research() up to its first await: the loop body runs iff range(max_retries + 1)
\* is not empty, and then awaits self.llm.ainvoke (line 68)
research_begin(agent, query, max_retries, via) ==
    IF 0 < max_retries + 1
    THEN [done |-> FALSE, task |-> ResearchTask(agent, query, max_retries, via)]
    ELSE [done |-> TRUE, result |-> Returned(FallThroughMessage, ZeroUsage),
          calls |-> 0, sleeps |-> << >>]

\* research() from the return of ainvoke (a response, or an exception with its
\* text) to its next await or its return
research_resume(task, outcome) ==
    IF outcome.kind = "ok"
    THEN [done |-> TRUE,
          result |-> Returned(outcome.response.content,
                       extract_usage(outcome.response,
                           optimized_prompt(task.agent.max_tokens, task.query)))]
    ELSE LET h == handle_exception(outcome.text, task.attempt, task.max_retries) IN
         IF h.do = "sleep"
         THEN [done |-> FALSE,
               task |-> [task EXCEPT !.pc = "sleep",
                                     !.sleeps = Append(@, h.wait_time)]]
         ELSE IF h.do = "return"
         THEN [done |-> TRUE, result |-> h.result]
         ELSE [done |-> TRUE, result |-> Raised(outcome.text)]

\* asyncio.sleep returns and `continue` goes back to line 66: the next attempt
\* of range(max_retries + 1) if there is one, else the return of line 146
research_wake(task) ==
    IF task.attempt + 1 < task.max_retries + 1
    THEN [done |-> FALSE,
          task |-> [task EXCEPT !.pc = "ainvoke", !.attempt = @ + 1, !.calls = @ + 1]]
    ELSE [done |-> TRUE, result |-> Returned(FallThroughMessage, ZeroUsage)]

----------------------------------------------------------------------------
(* DeepResearchAgent.deep_research, agent.py:580-639, and its seven stages *)

\* The stages in the order of _build_workflow (lines 314-337): the field each
\* writes, the current_step it sets, the label of the message it appends
\* Mutant: the user-insights node writes the market analysis field
StageFieldCopyPaste == << "research_plan", "market_analysis", "market_analysis",
                          "competitive_landscape", "risks_and_challenges",
                          "devils_advocate", "recommendations" >>

StageField == << "research_plan", "market_analysis", "user_insights",
                 "competitive_landscape", "risks_and_challenges",
                 "devils_advocate", "recommendations" >>
StageStep == << "Planning", "Market Analysis", "User Research",
                "Competitive Analysis", "Risk Assessment", "Devil's Advocate",
                "Synthesis Complete" >>
StageLabel == << "# Research Plan:\n", "# Market Analysis:\n", "# User Insights:\n",
                 "## Competitive Landscape:\n", "## Risks & Challenges:\n",
                 "# Devil's Advocate:\n" >>

\* initial_state, lines 592-607
PMResearchState(query) ==
    [query |-> query, messages |-> << >>, research_plan |-> "",
     market_analysis |-> "", user_insights |-> "", competitive_landscape |-> "",
     risks_and_challenges |-> "", devils_advocate |-> "", recommendations |-> "",
     final_report |-> "", current_step |-> "Initializing",
     prompt_tokens |-> 0, completion_tokens |-> 0, total_tokens |-> 0]

(* The prompts of the seven stages *)

\* planning_prompt, lines 350-362
planning_prompt(state) ==
    "You are a senior product manager creating a research plan.\n"
        \o "\n"
        \o "Question: "
        \o state.query
        \o "\n"
        \o "\n"
        \o "Break this down into a structured research plan covering:\n"
        \o "1. Market & Opportunity\n"
        \o "2. User Needs & Pain Points\n"
        \o "3. Competitive Landscape\n"
        \o "4. Risks & Challenges\n"
        \o "5. Critical Analysis (Devil's Advocate)\n"
        \o "6. Strategic Recommendations\n"
        \o "\n"
        \o "Provide a concise plan (2-3 sentences per area). Be thorough "
        \o "and detailed."

\* market_prompt, lines 375-388
market_prompt(state) ==
    "You are a market analyst for product management.\n"
        \o "\n"
        \o "Original Question: "
        \o state.query
        \o "\n"
        \o "Research Plan: "
        \o state.research_plan
        \o "\n"
        \o "\n"
        \o "Provide a COMPREHENSIVE MARKET & OPPORTUNITY ANALYSIS with specific "
        \o "details:\n"
        \o "- Market size estimate with numbers (TAM/SAM/SOM if applicable)\n"
        \o "- Growth rate and trajectory (percentages, trends)\n"
        \o "- Current market trends and dynamics\n"
        \o "- Target customer segments and their characteristics\n"
        \o "- Market maturity stage\n"
        \o "- Entry barriers and opportunities\n"
        \o "\n"
        \o "Be detailed, specific, and data-driven. Provide 6-8 substantive "
        \o "points."

\* user_prompt, lines 401-414
user_prompt(state) ==
    "You are a user research expert conducting deep analysis.\n"
        \o "\n"
        \o "Question: "
        \o state.query
        \o "\n"
        \o "Market Context: "
        \o state.market_analysis
        \o "\n"
        \o "\n"
        \o "Provide COMPREHENSIVE USER NEEDS & PAIN POINTS ANALYSIS:\n"
        \o "- Define 2-3 primary user personas with demographics and behaviors\n"
        \o "- Identify specific pain points with severity levels\n"
        \o "- Articulate user expectations, desires, and motivations\n"
        \o "- Map the user journey and friction points\n"
        \o "- Identify adoption barriers (cost, complexity, switching costs, "
        \o "etc.)\n"
        \o "- Analyze willingness to pay and value perception\n"
        \o "\n"
        \o "Be specific and thorough. Provide 6-8 detailed insights."

\* competitive_prompt, lines 427-442
competitive_prompt(state) ==
    "You are a competitive intelligence analyst conducting thorough "
        \o "research.\n"
        \o "\n"
        \o "Question: "
        \o state.query
        \o "\n"
        \o "Market Context: "
        \o state.market_analysis
        \o "\n"
        \o "User Context: "
        \o state.user_insights
        \o "\n"
        \o "\n"
        \o "Provide COMPREHENSIVE COMPETITIVE LANDSCAPE ANALYSIS:\n"
        \o "- Identify specific competitors by name (direct and indirect)\n"
        \o "- Analyze each competitor's positioning, strengths, and weaknesses\n"
        \o "- Evaluate competitive advantages and moats\n"
        \o "- Identify gaps in current market solutions\n"
        \o "- Assess differentiation opportunities\n"
        \o "- Analyze pricing strategies and business models\n"
        \o "- Evaluate market share distribution\n"
        \o "\n"
        \o "Be specific with company names and detailed analysis. Provide "
        \o "6-8 strategic insights."

\* risk_prompt, lines 455-470
risk_prompt(state) ==
    "You are a risk assessment specialist conducting detailed analysis.\n"
        \o "\n"
        \o "Question: "
        \o state.query
        \o "\n"
        \o "Market: "
        \o state.market_analysis
        \o "\n"
        \o "Competition: "
        \o state.competitive_landscape
        \o "\n"
        \o "\n"
        \o "Provide COMPREHENSIVE RISKS & CHALLENGES ASSESSMENT:\n"
        \o "- Technical risks (scalability, architecture, integration, security)\n"
        \o "- Market risks (timing, adoption, competition, saturation)\n"
        \o "- Financial risks (burn rate, unit economics, profitability)\n"
        \o "- Operational risks (team, resources, partnerships)\n"
        \o "- Regulatory and compliance risks\n"
        \o "- Execution challenges\n"
        \o "- Mitigation strategies for each major risk\n"
        \o "\n"
        \o "Be realistic, specific, and thorough. Identify 6-8 significant "
        \o "risks with mitigation strategies."

\* devils_prompt, lines 483-504
devils_prompt(state) ==
    "You are a DEVIL'S ADVOCATE - a critical analyst whose job is "
        \o "to challenge assumptions and point out why this product might "
        \o "FAIL.\n"
        \o "\n"
        \o "Question: "
        \o state.query
        \o "\n"
        \o "\n"
        \o "All Research:\n"
        \o "- Market: "
        \o state.market_analysis
        \o "\n"
        \o "- Users: "
        \o state.user_insights
        \o "\n"
        \o "- Competition: "
        \o state.competitive_landscape
        \o "\n"
        \o "- Risks: "
        \o state.risks_and_challenges
        \o "\n"
        \o "\n"
        \o "Your task: Be brutally honest and critical. Identify:\n"
        \o "- Why this product is likely to FAIL\n"
        \o "- Over-optimistic assumptions in the research\n"
        \o "- Hidden costs and challenges not yet considered\n"
        \o "- Why competitors might crush this product\n"
        \o "- Why users might NOT adopt it despite claimed pain points\n"
        \o "- Timing issues (too early/too late to market)\n"
        \o "- Resource constraints and execution impossibilities\n"
        \o "- Financial reasons this won't be profitable\n"
        \o "- Why the team/company might not be the right one to build this\n"
        \o "\n"
        \o "Be pessimistic, realistic, and blunt. This analysis should make "
        \o "someone think twice. Provide 8-10 critical points that challenge "
        \o "the viability of this product."

\* synthesis_prompt, lines 517-538
synthesis_prompt(state) ==
    "You are a Chief Product Officer synthesizing research into a "
        \o "balanced decision framework.\n"
        \o "\n"
        \o "Original Question: "
        \o state.query
        \o "\n"
        \o "\n"
        \o "Research Completed:\n"
        \o "- Market Analysis: "
        \o state.market_analysis
        \o "\n"
        \o "- User Insights: "
        \o state.user_insights
        \o "\n"
        \o "- Competitive Landscape: "
        \o state.competitive_landscape
        \o "\n"
        \o "- Risks & Challenges: "
        \o state.risks_and_challenges
        \o "\n"
        \o "- Critical Analysis: "
        \o state.devils_advocate
        \o "\n"
        \o "\n"
        \o "Provide COMPREHENSIVE STRATEGIC RECOMMENDATIONS that balance "
        \o "optimism with realism:\n"
        \o "\n"
        \o "1. **Clear Decision** (Go/No-Go/Pivot, with detailed rationale "
        \o "considering both opportunities AND critical challenges)\n"
        \o "2. **Key Success Metrics** (specific, measurable KPIs to track)\n"
        \o "3. **Recommended Approach** (phased rollout, MVP strategy, or "
        \o "full launch)\n"
        \o "4. **Timeline and Milestones** (realistic with key decision "
        \o "points)\n"
        \o "5. **Resource Requirements** (team, budget, time estimates)\n"
        \o "6. **Go/No-Go Criteria** (what would make you stop or pivot)\n"
        \o "7. **Decision Rationale** (balanced view acknowledging both "
        \o "opportunity and devil's advocate points)\n"
        \o "\n"
        \o "Be realistic, balanced, and actionable. This should be a complete "
        \o "decision framework."

\* _track_tokens, lines 339-346
track_tokens(response, state) ==
    IF response.has_response_metadata
    THEN LET usage == response.usage_metadata
             p == state.prompt_tokens + GetCount(usage, "prompt_token_count")
             c == state.completion_tokens + GetCount(usage, "candidates_token_count")
         IN [state EXCEPT !.prompt_tokens = p, !.completion_tokens = c,
                          !.total_tokens = p + c]
    ELSE state

\* final_report, lines 547-573
FinalReport(state) ==
    "# Deep Research Report: Product Management Analysis\n\n"
        \o "## # Research Question\n" \o state.query
        \o "\n\n## # Market Analysis\n" \o state.market_analysis
        \o "\n\n## # User Insights\n" \o state.user_insights
        \o "\n\n## ## Competitive Landscape\n" \o state.competitive_landscape
        \o "\n\n## ## Risks & Challenges\n" \o state.risks_and_challenges
        \o "\n\n## # Devil's Advocate: Why This Might Fail\n" \o state.devils_advocate
        \o "\n\n## # Strategic Recommendations\n" \o state.recommendations
        \o "\n\n---\n*Generated using LangGraph Deep Research Mode*\n"
        \o "*Total Tokens Used: " \o ToString(state.total_tokens)
        \o " (Prompt: " \o ToString(state.prompt_tokens)
        \o ", Completion: " \o ToString(state.completion_tokens) \o ")*\n"

\* A stage from the return of its completion call to its own return: lines
\* 365-371 for the plan, the like for the next five, 541-578 for the synthesis
run_stage(state, k, response) ==
    LET tracked == track_tokens(response, state)
        written == [tracked EXCEPT ![StageField[k]] = response.content,
                                   !.current_step = StageStep[k]]
    IN  IF k < DEEP_STAGES
        THEN [written EXCEPT
                !.messages = Append(@, StageLabel[k] \o response.content)]
        ELSE [written EXCEPT !.final_report = FinalReport(written),
                             !.messages = Append(@, "# Final Report Complete")]

\* Lines 612-621: what deep_research returns when the workflow has run
DeepResult(agent, final_state) ==
    [report |-> final_state.final_report,
     metadata |-> [steps_completed |-> 7, model |-> agent.model_name,
                   mode |-> "deep_research",
                   prompt_tokens |-> final_state.prompt_tokens,
                   completion_tokens |-> final_state.completion_tokens,
                   total_tokens |-> final_state.total_tokens]]

\* Lines 623-639: what it returns when a stage raised
DeepErrorResult(error_str) ==
    [report |-> "# **Deep Research Error**\n\n"
                  \o "An error occurred during the research process:\n"
                  \o error_str
                  \o "\n\nThis might be due to:\n"
                  \o "- API rate limits (deep research makes multiple calls)\n"
                  \o "- Quota exhaustion\n- Network issues\n\n"
                  \o "# Try:\n- Waiting a few minutes\n"
                  \o "- Using standard research mode\n"
                  \o "- Checking your API quota at https://makersuite.google.com/\n",
     metadata |-> [error |-> error_str, prompt_tokens |-> 0,
                   completion_tokens |-> 0, total_tokens |-> 0]]

\* _build_workflow, lines 314-337: the nodes in the order they are added, the
\* entry point and the edges
StageNode == << "plan", "market_analysis", "user_insights", "competitive_analysis",
                "risk_assessment", "devils_advocate", "synthesize" >>
END == "__end__"
EntryPoint == "plan"
WorkflowEdges ==
    { << "plan", "market_analysis" >>,
      << "market_analysis", "user_insights" >>,
      << "user_insights", "competitive_analysis" >>,
      << "competitive_analysis", "risk_assessment" >>,
      << "risk_assessment", "devils_advocate" >>,
      << "devils_advocate", "synthesize" >>,
      << "synthesize", END >> }

\* The stage number of a node, 1..7
StageOf(node) == CHOOSE k \in 1..Len(StageNode) : StageNode[k] = node

\* Mutant: the edge out of market_analysis drawn to competitive_analysis
NodeAfterSkipping(node) ==
    IF node = "market_analysis" THEN "competitive_analysis"
    ELSE CHOOSE m \in {e[2] : e \in WorkflowEdges} : << node, m >> \in WorkflowEdges

\* The node the compiled graph runs after `node`: the target of its edge
NodeAfter(node) ==
    CHOOSE m \in {e[2] : e \in WorkflowEdges} : << node, m >> \in WorkflowEdges

\* The prompt of the completion call a node issues, from the state it is given
StagePrompt(node, state) ==
    CASE node = "plan" -> planning_prompt(state)
      [] node = "market_analysis" -> market_prompt(state)
      [] node = "user_insights" -> user_prompt(state)
      [] node = "competitive_analysis" -> competitive_prompt(state)
      [] node = "risk_assessment" -> risk_prompt(state)
      [] node = "devils_advocate" -> devils_prompt(state)
      [] node = "synthesize" -> synthesis_prompt(state)

\* A deep_research() coroutine: the node whose completion call it awaits, the
\* prompt of that call, the nodes that have issued a call and the outcomes of
\* the calls that have returned
\* Mutant: the pipeline state kept on the instance, a new invocation going on
\* from the state of the invocation that is running on it
DeepTaskOnInstanceState(agent, query, via) ==
    LET running == {s \in DOMAIN tasks :
                       tasks[s].kind = "deep" /\ tasks[s].agent = agent}
        state == IF running = {} THEN PMResearchState(query)
                 ELSE [tasks[CHOOSE s \in running : TRUE].state
                           EXCEPT !.query = query]
    IN [kind |-> "deep", via |-> via, agent |-> agent, query |-> query,
        node |-> EntryPoint, calls |-> 1,
        prompt |-> StagePrompt(EntryPoint, state),
        issued |-> << EntryPoint >>, seen |-> << >>,
        state |-> state]

DeepTask(agent, query, via) ==
    [kind |-> "deep", via |-> via, agent |-> agent, query |-> query,
     node |-> EntryPoint, calls |-> 1,
     prompt |-> StagePrompt(EntryPoint, PMResearchState(query)),
     issued |-> << EntryPoint >>, seen |-> << >>,
     state |-> PMResearchState(query)]

\* Mutant: a stage whose call raised is passed over and the workflow goes on
deep_resume_PassOver(task, outcome) ==
    LET state == IF outcome.kind = "ok"
                 THEN run_stage(task.state, StageOf(task.node), outcome.response)
                 ELSE task.state
        next == NodeAfter(task.node)
    IN  IF next = END
        THEN [done |-> TRUE, result |-> DeepResult(task.agent, state)]
        ELSE [done |-> FALSE,
              task |-> [task EXCEPT !.node = next, !.calls = @ + 1,
                                    !.prompt = StagePrompt(next, state),
                                    !.issued = Append(@, next),
                                    !.state = state]]

\* Mutant: no except clause, the exception of a node leaves deep_research()
deep_resume_Reraise(task, outcome) ==
    IF outcome.kind # "ok"
    THEN [done |-> TRUE, result |-> Raised(outcome.text)]
    ELSE LET state == run_stage(task.state, StageOf(task.node), outcome.response)
             next == NodeAfter(task.node)
         IN  IF next = END
             THEN [done |-> TRUE, result |-> DeepResult(task.agent, state)]
             ELSE [done |-> FALSE,
                   task |-> [task EXCEPT !.node = next, !.calls = @ + 1,
                                         !.prompt = StagePrompt(next, state),
                                         !.issued = Append(@, next),
                                         !.state = state]]

\* deep_research() from the return of a node's completion call to the next
\* node's call or to its own return: the exception of any node is caught at
\* line 623, the return of the last node is the end of workflow.ainvoke
deep_resume(task, outcome) ==
    IF outcome.kind # "ok"
    THEN [done |-> TRUE, result |-> DeepErrorResult(outcome.text)]
    ELSE LET state == run_stage(task.state, StageOf(task.node), outcome.response)
             next == NodeAfter(task.node)
         IN  IF next = END
             THEN [done |-> TRUE, result |-> DeepResult(task.agent, state)]
             ELSE [done |-> FALSE,
                   task |-> [task EXCEPT !.node = next, !.calls = @ + 1,
                                         !.prompt = StagePrompt(next, state),
                                         !.issued = Append(@, next),
                                         !.state = state]]

\* DeepResearchResponse, api.py:213-224: metadata.get(key, default)
\* Mutant: metadata.get("steps_completed", 0)
DeepResearchResponseDefaultZero(query, agent, result) ==
    LET md == result.metadata IN
    [query |-> query, result |-> result.report, model |-> agent.model_name,
     mode |-> "deep_research",
     steps_completed |->
         IF "steps_completed" \in DOMAIN md THEN md.steps_completed ELSE 0,
     token_usage |-> [prompt_tokens |-> md.prompt_tokens,
                      completion_tokens |-> md.completion_tokens,
                      total_tokens |-> md.total_tokens]]

DeepResearchResponse(query, agent, result) ==
    LET md == result.metadata IN
    [query |-> query, result |-> result.report, model |-> agent.model_name,
     mode |-> "deep_research",
     steps_completed |->
         IF "steps_completed" \in DOMAIN md THEN md.steps_completed ELSE 7,
     token_usage |-> [prompt_tokens |-> md.prompt_tokens,
                      completion_tokens |-> md.completion_tokens,
                      total_tokens |-> md.total_tokens]]

----------------------------------------------------------------------------
(* The agent caches, api.py:61-81 *)

\* ResearchAgent.__init__ (agent.py:32-46) and DeepResearchAgent.__init__
\* (agent.py:298-312): ValueError when the key is not set
ResearchAgent(model_name, max_tokens, id) ==
    [model_name |-> model_name, max_tokens |-> max_tokens, id |-> id]
DeepResearchAgent(model_name, id) ==
    [model_name |-> model_name, id |-> id]

\* ResearchAgent.get_info, agent.py:148-158
get_info(agent) ==
    [model |-> agent.model_name, status |-> "ready",
     capabilities |-> << "Text generation", "Research queries",
                         "Information synthesis" >>]

\* Mutant: no lookup, an instance constructed and stored at every call
get_agent_NoLookup(cache, api_key, model_name, max_tokens, id) ==
    LET cache_key == << model_name, max_tokens >> IN
    IF ~api_key
    THEN [raised |-> TRUE, cache |-> cache, built |-> 0]
    ELSE LET a == ResearchAgent(model_name, max_tokens, id) IN
         [raised |-> FALSE, cache |-> (cache_key :> a) @@ cache, agent |-> a, built |-> 1]

\* Mutant: the key entered in the cache before the constructor has returned
get_agent_InsertsFirst(cache, api_key, model_name, max_tokens, id) ==
    LET cache_key == << model_name, max_tokens >>
        a == ResearchAgent(model_name, max_tokens, id)
    IN
    IF cache_key \in DOMAIN cache
    THEN [raised |-> FALSE, cache |-> cache, agent |-> cache[cache_key], built |-> 0]
    ELSE IF ~api_key
    THEN [raised |-> TRUE, cache |-> (cache_key :> a) @@ cache, built |-> 0]
    ELSE [raised |-> FALSE, cache |-> (cache_key :> a) @@ cache, agent |-> a, built |-> 1]

\* get_agent: the cache it leaves, the instance it returns, or HTTP 500
get_agent(cache, api_key, model_name, max_tokens, id) ==
    LET cache_key == << model_name, max_tokens >> IN
    IF cache_key \in DOMAIN cache
    THEN [raised |-> FALSE, cache |-> cache, agent |-> cache[cache_key], built |-> 0]
    ELSE IF ~api_key
    THEN [raised |-> TRUE, cache |-> cache, built |-> 0]
    ELSE LET a == ResearchAgent(model_name, max_tokens, id) IN
         [raised |-> FALSE, cache |-> (cache_key :> a) @@ cache, agent |-> a, built |-> 1]

\* Mutant: no lookup, an instance constructed and stored at every call
get_deep_agent_NoLookup(cache, api_key, model_name, id) ==
    IF ~api_key
    THEN [raised |-> TRUE, cache |-> cache, built |-> 0]
    ELSE LET a == DeepResearchAgent(model_name, id) IN
         [raised |-> FALSE, cache |-> (model_name :> a) @@ cache, agent |-> a, built |-> 1]

\* get_deep_agent
get_deep_agent(cache, api_key, model_name, id) ==
    IF model_name \in DOMAIN cache
    THEN [raised |-> FALSE, cache |-> cache, agent |-> cache[model_name], built |-> 0]
    ELSE IF ~api_key
    THEN [raised |-> TRUE, cache |-> cache, built |-> 0]
    ELSE LET a == DeepResearchAgent(model_name, id) IN
         [raised |-> FALSE, cache |-> (model_name :> a) @@ cache, agent |-> a, built |-> 1]

----------------------------------------------------------------------------
(* The model catalog: get_model_price_tier and list_available_models,
   agent.py:161-259, and GET /models, api.py:146-155 *)

UpperCase == "ABCDEFGHIJKLMNOPQRSTUVWXYZ"
LowerCase == "abcdefghijklmnopqrstuvwxyz"

\* str.lower() on one character
UpperToLower ==
    [c \in {SubSeq(UpperCase, i, i) : i \in 1..Len(UpperCase)} |->
        LET i == CHOOSE i \in 1..Len(UpperCase) : SubSeq(UpperCase, i, i) = c
        IN SubSeq(LowerCase, i, i)]
LowerChar(c) == IF c \in DOMAIN UpperToLower THEN UpperToLower[c] ELSE c

\* str.lower()
RECURSIVE Lower(_)
Lower(s) ==
    IF s = "" THEN ""
    ELSE LowerChar(SubSeq(s, 1, 1)) \o Lower(SubSeq(s, 2, Len(s)))

\* str.replace(old, ""): every occurrence of old taken out, left to right
RECURSIVE Remove(_, _)
Remove(s, old) ==
    IF Len(s) < Len(old) \/ old = "" THEN s
    ELSE IF SubSeq(s, 1, Len(old)) = old
    THEN Remove(SubSeq(s, Len(old) + 1, Len(s)), old)
    ELSE SubSeq(s, 1, 1) \o Remove(SubSeq(s, 2, Len(s)), old)

\* Mutant: 'flash' looked for before 'exp'
get_model_price_tier_FlashFirst(model_name) ==
    LET model_lower == Lower(model_name) IN
    IF Contains(model_lower, "flash") THEN 1
    ELSE IF Contains(model_lower, "exp") \/ Contains(model_lower, "experimental") THEN 0
    ELSE IF Contains(model_lower, "pro") THEN 2
    ELSE IF Contains(model_lower, "ultra") THEN 3
    ELSE 1

\* get_model_price_tier, lines 161-183
get_model_price_tier(model_name) ==
    LET model_lower == Lower(model_name) IN
    IF Contains(model_lower, "exp") \/ Contains(model_lower, "experimental") THEN 0
    ELSE IF Contains(model_lower, "flash") THEN 1
    ELSE IF Contains(model_lower, "pro") THEN 2
    ELSE IF Contains(model_lower, "ultra") THEN 3
    ELSE 1

\* price_emoji, lines 213 and 227: one money bag per tier and one more, "+"
\* after three of them from tier 3 on
RECURSIVE Repeat(_, _)
Repeat(s, n) == IF n <= 0 THEN "" ELSE s \o Repeat(s, n - 1)
price_emoji(price_tier) ==
    IF price_tier < 3 THEN Repeat("#", price_tier + 1) ELSE "###+"

\* A model as the provider lists it is a record of the attributes the object
\* has, hasattr(model, a) being a \in DOMAIN model, with what str(model) gives
\* in the field str
HasAttr(model, a) == a \in DOMAIN model

\* The dict appended for a model, lines 208-221 and 224-235: the name without
\* "models/" or str(model), the display name or the name, the description or ''
ModelEntry(model) ==
    LET model_name == IF HasAttr(model, "name")
                      THEN Remove(model.name, "models/") ELSE model.str
        display_name == IF HasAttr(model, "display_name")
                        THEN model.display_name ELSE model_name
        price_tier == get_model_price_tier(model_name)
    IN [name |-> model_name, display_name |-> display_name,
        description |-> IF HasAttr(model, "description")
                        THEN model.description ELSE "",
        price_tier |-> price_tier,
        price_indicator |-> price_emoji(price_tier)]

\* The loop of lines 204-235: a model without the attribute is taken, a model
\* with it is taken when it can generateContent
RECURSIVE CollectModels(_)
CollectModels(listing) ==
    IF listing = << >> THEN << >>
    ELSE LET model == Head(listing)
             taken == \/ ~HasAttr(model, "supported_generation_methods")
                      \/ "generateContent" \in model.supported_generation_methods
         IN (IF taken THEN << ModelEntry(model) >> ELSE << >>)
                \o CollectModels(Tail(listing))

\* models.sort(key=lambda x: x.get('price_tier', 1)), line 238: list.sort is
\* stable, an element goes after the elements of its tier already placed
RECURSIVE SortByPriceTier(_)
SortByPriceTier(models) ==
    IF models = << >> THEN << >>
    ELSE LET sorted == SortByPriceTier(SubSeq(models, 1, Len(models) - 1))
             x == models[Len(models)]
             before == SelectSeq(sorted, LAMBDA y : y.price_tier <= x.price_tier)
             after == SelectSeq(sorted, LAMBDA y : y.price_tier > x.price_tier)
         IN before \o << x >> \o after

\* The list returned from the except clause, lines 244-259
FallbackModels ==
    << [name |-> "gemini-1.5-flash", display_name |-> "Gemini 1.5 Flash",
        description |-> "Fast and efficient model", price_tier |-> 1,
        price_indicator |-> "##"],
       [name |-> "gemini-1.5-pro", display_name |-> "Gemini 1.5 Pro",
        description |-> "Advanced model for complex tasks", price_tier |-> 2,
        price_indicator |-> "###"] >>

\* Mutant: no except clause, the provider's error leaves the function
list_available_models_Reraise(api_key, provider) ==
    IF ~api_key
    THEN [raised |-> FALSE, contacted |-> FALSE, models |-> << >>]
    ELSE IF provider.kind = "error"
    THEN [raised |-> TRUE, contacted |-> TRUE, models |-> << >>]
    ELSE [raised |-> FALSE, contacted |-> TRUE,
          models |-> SortByPriceTier(CollectModels(provider.models))]

\* list_available_models, lines 186-259: what it returns, and whether it got
\* as far as the provider.  The provider either lists models or raises, in
\* genai.Client or while the listing is read.
list_available_models(api_key, provider) ==
    IF ~api_key
    THEN [raised |-> FALSE, contacted |-> FALSE, models |-> << >>]
    ELSE IF provider.kind = "error"
    THEN [raised |-> FALSE, contacted |-> TRUE, models |-> FallbackModels]
    ELSE [raised |-> FALSE, contacted |-> TRUE,
          models |-> SortByPriceTier(CollectModels(provider.models))]

\* get_models, api.py:146-155: `if not models` is the test of an empty list
get_models(listed) ==
    IF listed.raised \/ listed.models = << >>
    THEN [status |-> 500, models |-> << >>]
    ELSE [status |-> 200, models |-> listed.models]

----------------------------------------------------------------------------
(* Inputs *)

DEFAULT_MODEL == "gemini-2.0-flash"
Models == {DEFAULT_MODEL, "gemini-1.5-pro"}
TokenLimits == {512}
\* The (model, max_tokens) of the requests that share the caches: two token
\* limits for one model, one token limit for two models
CacheRequests == {<< DEFAULT_MODEL, 256 >>, << DEFAULT_MODEL, 512 >>,
                  << "gemini-1.5-pro", 512 >>}
Queries == {"Why?"}

\* Clock advances between two steps, in ticks: just short of a window, a
\* window, just over a window
Advances == {WindowTicks - 1, WindowTicks, WindowTicks + 1}

\* Provider errors, by whether str(e) carries a rate-limit marker
RateLimitErrors == {"429 Too Many Requests",
                    "Quota RESOURCE_EXHAUSTED",
                    "429 " \o Pad(ERROR_DETAIL_CHARS)}
OtherErrors == {"timeout", "500 " \o Pad(ERROR_DETAIL_CHARS)}

\* Provider responses: usage metadata present, flat counts only, nothing
Responses ==
    {[content |-> "Because.", has_response_metadata |-> TRUE,
      usage_metadata |-> Counts(12, 3, 15), flat |-> NoCounts],
     [content |-> "Because.", has_response_metadata |-> TRUE,
      usage_metadata |-> NoCounts, flat |-> Counts(12, 3, 15)],
     [content |-> "Because it is so.", has_response_metadata |-> TRUE,
      usage_metadata |-> NoCounts, flat |-> NoCounts],
     \* both present: a structured total of zero, a flat total that is not
     [content |-> "Because.", has_response_metadata |-> TRUE,
      usage_metadata |-> Counts(12, 3, 0), flat |-> Counts(7, 2, 9)],
     \* both present and not zero
     [content |-> "Because.", has_response_metadata |-> TRUE,
      usage_metadata |-> Counts(12, 3, 15), flat |-> Counts(7, 2, 9)],
     \* structured counts with a total of zero, no flat counts
     [content |-> "Because it is so.", has_response_metadata |-> TRUE,
      usage_metadata |-> Counts(12, 3, 0), flat |-> NoCounts],
     \* a response without the response_metadata attribute
     [content |-> "Because it is so.", has_response_metadata |-> FALSE,
      usage_metadata |-> NoCounts, flat |-> NoCounts]}

Ok(r) == [kind |-> "ok", response |-> r]
Exc(text) == [kind |-> "exc", text |-> text]

Outcomes == {Ok(r) : r \in Responses} \cup {Exc(e) : e \in RateLimitErrors \cup OtherErrors}

\* The outcomes the gateway specification draws from
FewOutcomes == {Ok(CHOOSE r \in Responses :
                        r.usage_metadata.present /\ ~r.flat.present
                            /\ r.usage_metadata.total_token_count > 0),
                Exc("429 Too Many Requests"), Exc("timeout")}

\* What the provider answers to the call of stage k: a text of that stage with
\* usage metadata, with usage metadata whose total counts more than prompt and
\* candidates, with flat counts only, with no metadata
StageContent == << "Plan: six areas.", "Market: large and growing.",
                   "Users: two personas.", "Competition: three rivals.",
                   "Risks: timing and cost.", "Critique: it may fail.",
                   "Decision: go, in phases." >>

StageResponses(k) ==
    {[content |-> StageContent[k], has_response_metadata |-> TRUE,
      usage_metadata |-> Counts(10 * k, k, 11 * k), flat |-> NoCounts],
     [content |-> StageContent[k], has_response_metadata |-> TRUE,
      usage_metadata |-> Counts(10 * k, k, 11 * k + 5), flat |-> NoCounts],
     [content |-> StageContent[k], has_response_metadata |-> TRUE,
      usage_metadata |-> NoCounts, flat |-> Counts(10 * k, k, 11 * k)],
     [content |-> StageContent[k], has_response_metadata |-> FALSE,
      usage_metadata |-> NoCounts, flat |-> NoCounts]}

StageErrors == {"429 Too Many Requests", "timeout"}

\* The outcomes of the call a deep_research() coroutine is awaiting
StageOutcomes(task) ==
    IF task.kind = "deep"
    THEN {Ok(r) : r \in StageResponses(StageOf(task.node))}
             \cup {Exc(e) : e \in StageErrors}
    ELSE {}

\* The questions of the invocations that run side by side
DeepQueries == {"Why?", "Why not?"}

\* The provider's answer to the call a deep_research() coroutine is awaiting:
\* the text of the stage about the question asked, with the usage of this
\* very call, a token to four characters of the prompt and of the answer
AnswerTo(task) ==
    LET content == StageContent[StageOf(task.node)] \o " Re: " \o task.query
        p == Len(task.prompt) \div 4
        c == Len(content) \div 4
    IN [content |-> content, has_response_metadata |-> TRUE,
        usage_metadata |-> Counts(p, c, p + c), flat |-> NoCounts]

InterleavedOutcomes(task) ==
    IF task.kind = "deep" THEN {Ok(AnswerTo(task)), Exc("timeout")} ELSE {}

\* The models a provider may list: names with one marker, with several, in
\* capitals, with none; with and without a description, a description of
\* None; a model that cannot generateContent; models without the
\* supported_generation_methods, the display_name or the name attribute
ProviderModels ==
    {[name |-> "models/gemini-2.0-flash-exp", str |-> "Model<gemini-2.0-flash-exp>",
      display_name |-> "Gemini 2.0 Flash Experimental",
      description |-> "Experimental fast model",
      supported_generation_methods |-> {"generateContent"}],
     [name |-> "models/gemini-1.5-pro", str |-> "Model<gemini-1.5-pro>",
      display_name |-> "Gemini 1.5 Pro",
      description |-> "Mid-size multimodal model",
      supported_generation_methods |-> {"generateContent"}],
     [name |-> "models/gemini-1.5-flash", str |-> "Model<gemini-1.5-flash>",
      display_name |-> "Gemini 1.5 Flash",
      supported_generation_methods |-> {"generateContent", "countTokens"}],
     [name |-> "models/gemini-ultra", str |-> "Model<gemini-ultra>",
      display_name |-> "Gemini Ultra", description |-> "",
      supported_generation_methods |-> {"generateContent"}],
     [name |-> "models/Gemini-Pro-EXP", str |-> "Model<Gemini-Pro-EXP>",
      display_name |-> "Gemini Pro Exp", description |-> "Preview",
      supported_generation_methods |-> {"generateContent"}],
     [name |-> "models/text-bison", str |-> "Model<text-bison>",
      display_name |-> "Text Bison", description |-> "Legacy text model"],
     [name |-> "models/embedding-001", str |-> "Model<embedding-001>",
      display_name |-> "Embedding 001", description |-> "Embeddings",
      supported_generation_methods |-> {"embedContent"}],
     [name |-> "models/gemini-pro-vision", str |-> "Model<gemini-pro-vision>",
      supported_generation_methods |-> {"generateContent"}],
     [str |-> "Model<Nameless>", display_name |-> "Nameless", description |-> None]}

\* What the provider does when asked for its models: it lists them, or the
\* call raises
ProviderOutcomes == {"listing", "error"}

\* The coroutines suspended at an await sit in slots; a specification that
\* follows one request at a time uses the first slot only
Slots == 1..MaxTasks
OneSlot == {s \in Slots : s <= 1}

----------------------------------------------------------------------------
(* Initial state: the module of api.py has been imported, nothing called *)

NoBurst == [first |-> 0, n |-> 0]

Init ==
    /\ now = 0
    /\ GOOGLE_API_KEY \in BOOLEAN
    /\ _request_timestamps = << >>
    /\ _agents = << >>
    /\ _deep_agents = << >>
    /\ objects = 0
    /\ tasks = [s \in Slots |-> NoTask]
    /\ event = [op |-> "init"]
    /\ admitted = << >>
    /\ retry = None
    /\ burst = NoBurst
    /\ catalog = << >>

----------------------------------------------------------------------------
(* The clock *)

\* time.time() moves on by d ticks.  A caller that was answered 429 may wait
\* exactly the time it was told to.
Tick(d) ==
    /\ d > 0
    /\ now + d <= MaxTime
    /\ now' = now + d
    /\ event' = [op |-> "tick"]
    /\ UNCHANGED << catalog, GOOGLE_API_KEY, _request_timestamps, _agents, _deep_agents,
                    objects, tasks, admitted, retry, burst >>

RetryAdvances == IF retry # None /\ retry.due > now THEN {retry.due - now} ELSE {}

----------------------------------------------------------------------------
(* What a gated call leaves in the bookkeeping of the checks *)

\* The admitted timestamps that can still share a window with a later one
Recent(log, t) == SelectSeq(log, LAMBDA x : x >= t - WindowTicks)

Bookkeeping(rl) ==
    /\ admitted' = IF rl.raised THEN admitted
                   ELSE Append(Recent(admitted, now), now)
    /\ retry' = IF ~rl.raised THEN None
                ELSE LET due == now + rl.wait_seconds * TicksPerSecond IN
                     [kind |-> "due",
                      due |-> IF retry = None THEN due ELSE Min(retry.due, due)]
    /\ burst' = IF PopExpired(_request_timestamps, now) = << >>
                THEN [first |-> now, n |-> 1]
                ELSE IF burst.n > 0 /\ now <= burst.first + WindowTicks
                THEN [first |-> burst.first,
                      n |-> Min(burst.n + 1, MAX_REQUESTS_PER_WINDOW + 1)]
                ELSE NoBurst

GatedEvent(op, status, rl, cache_key, built) ==
    [op |-> op, status |-> status, wait_seconds |-> rl.wait_seconds,
     before |-> _request_timestamps,
     due |-> (retry # None /\ now >= retry.due),
     cache_key |-> cache_key, built |-> built]

----------------------------------------------------------------------------
(* POST /research, api.py:158-181, up to its first await *)

Research(s, model, max_tokens, query) ==
    LET rl == check_rate_limit(_request_timestamps, now)
        g == get_agent(_agents, GOOGLE_API_KEY, model, max_tokens, objects + 1)
    IN
    /\ _request_timestamps' = rl.ts
    /\ Bookkeeping(rl)
    /\ IF rl.raised
       THEN /\ event' = GatedEvent("research", 429, rl, << model, max_tokens >>, 0)
            /\ UNCHANGED << _agents, objects, tasks >>
       ELSE IF g.raised
       THEN /\ event' = GatedEvent("research", 500, rl, << model, max_tokens >>, 0)
            /\ _agents' = g.cache
            /\ objects' = objects + g.built
            /\ UNCHANGED tasks
       ELSE LET b == research_begin(g.agent, query, DEFAULT_MAX_RETRIES, "http") IN
            /\ tasks[s] = NoTask
            /\ _agents' = g.cache
            /\ objects' = objects + g.built
            /\ tasks' = [tasks EXCEPT ![s] = b.task]
            /\ event' = GatedEvent("research", 0, rl, << model, max_tokens >>, g.built)
    /\ UNCHANGED << catalog, now, GOOGLE_API_KEY, _deep_agents >>

(* POST /deep-research, api.py:184-224, up to its first await *)

DeepResearch(s, model, query) ==
    LET rl == check_rate_limit(_request_timestamps, now)
        g == get_deep_agent(_deep_agents, GOOGLE_API_KEY, model, objects + 1)
    IN
    /\ _request_timestamps' = rl.ts
    /\ Bookkeeping(rl)
    /\ IF rl.raised
       THEN /\ event' = GatedEvent("deep_research", 429, rl, model, 0)
            /\ UNCHANGED << _deep_agents, objects, tasks >>
       ELSE IF g.raised
       THEN /\ event' = GatedEvent("deep_research", 500, rl, model, 0)
            /\ _deep_agents' = g.cache
            /\ objects' = objects + g.built
            /\ UNCHANGED tasks
       ELSE /\ tasks[s] = NoTask
            /\ _deep_agents' = g.cache
            /\ objects' = objects + g.built
            /\ tasks' = [tasks EXCEPT ![s] = DeepTask(g.agent, query, "http")]
            /\ event' = GatedEvent("deep_research", 0, rl, model, g.built)
    /\ UNCHANGED << catalog, now, GOOGLE_API_KEY, _agents >>

----------------------------------------------------------------------------
(* The awaits of research() *)

\* What a finished research() leaves to look at: how it was called, the
\* completion calls and sleeps it made, the outcomes it saw, what it returned
ReturnEvent(via, max_retries, calls, sleeps, seen, result) ==
    [op |-> "returned", via |-> via, max_retries |-> max_retries,
     calls |-> calls, sleeps |-> sleeps, seen |-> seen, result |-> result,
     status |-> IF via # "http" THEN 0
                ELSE IF result.kind = "returned" THEN 200 ELSE 500]

\* agent.research(query, max_retries) called on an agent the caller built,
\* not through the gateway
DirectResearch(s, model, max_tokens, query, max_retries) ==
    LET b == research_begin(ResearchAgent(model, max_tokens, 0), query,
                            max_retries, "direct") IN
    /\ GOOGLE_API_KEY
    /\ tasks[s] = NoTask
    /\ IF b.done
       THEN /\ event' = ReturnEvent("direct", max_retries, b.calls, b.sleeps,
                                    << >>, b.result)
            /\ UNCHANGED tasks
       ELSE /\ tasks' = [tasks EXCEPT ![s] = b.task]
            /\ event' = [op |-> "call", max_retries |-> max_retries]
    /\ UNCHANGED << catalog, now, GOOGLE_API_KEY, _request_timestamps, _agents,
                    _deep_agents, objects, admitted, retry, burst >>

\* await self.llm.ainvoke(optimized_prompt) returns or raises, line 68
AinvokeReturns(s, outcome) ==
    /\ tasks[s].kind = "research"
    /\ tasks[s].pc = "ainvoke"
    /\ LET t == [tasks[s] EXCEPT !.seen = Append(@, outcome)]
           r == research_resume(t, outcome)
       IN IF r.done
          THEN /\ tasks' = [tasks EXCEPT ![s] = NoTask]
               /\ event' = ReturnEvent(t.via, t.max_retries, t.calls, t.sleeps,
                                       t.seen, r.result)
          ELSE /\ tasks' = [tasks EXCEPT ![s] = r.task]
               /\ event' = [op |-> "sleep", wait_time |-> r.task.sleeps[Len(r.task.sleeps)]]
    /\ UNCHANGED << catalog, now, GOOGLE_API_KEY, _request_timestamps, _agents,
                    _deep_agents, objects, admitted, retry, burst >>

\* await asyncio.sleep(wait_time) returns, line 120; the loop calls again
SleepReturns(s) ==
    /\ tasks[s].kind = "research"
    /\ tasks[s].pc = "sleep"
    /\ LET t == tasks[s]
           r == research_wake(t)
       IN IF r.done
          THEN /\ tasks' = [tasks EXCEPT ![s] = NoTask]
               /\ event' = ReturnEvent(t.via, t.max_retries, t.calls, t.sleeps,
                                       t.seen, r.result)
          ELSE /\ tasks' = [tasks EXCEPT ![s] = r.task]
               /\ event' = [op |-> "ainvoke"]
    /\ UNCHANGED << catalog, now, GOOGLE_API_KEY, _request_timestamps, _agents,
                    _deep_agents, objects, admitted, retry, burst >>

(* The awaits of deep_research(): one completion call per stage *)

\* What a finished deep_research() leaves to look at: the nodes that issued a
\* call, the outcomes of the calls, the last node with its prompt, its outcome
\* and the pipeline state before and after it, the (report, metadata) pair
\* returned and, through the gateway, the response made of it
DeepReturnEvent(task, seen, result) ==
    [op |-> "deep_returned", via |-> task.via, query |-> task.query,
     calls |-> task.calls, issued |-> task.issued, seen |-> seen,
     ran |-> task.node, prompt |-> task.prompt, outcome |-> seen[Len(seen)],
     before |-> task.state,
     after |-> IF seen[Len(seen)].kind = "ok"
               THEN run_stage(task.state, StageOf(task.node), seen[Len(seen)].response)
               ELSE task.state,
     result |-> result,
     status |-> IF task.via # "http" THEN 0
                ELSE IF "report" \in DOMAIN result THEN 200 ELSE 500,
     response |-> IF task.via = "http" /\ "report" \in DOMAIN result
                  THEN DeepResearchResponse(task.query, task.agent, result)
                  ELSE None]

\* agent.deep_research(query) called on an agent the caller built
DirectDeepResearch(s, model, query) ==
    /\ GOOGLE_API_KEY
    /\ tasks[s] = NoTask
    /\ tasks' = [tasks EXCEPT ![s] =
                    DeepTask(DeepResearchAgent(model, 0), query, "direct")]
    /\ event' = [op |-> "deep_call"]
    /\ UNCHANGED << catalog, now, GOOGLE_API_KEY, _request_timestamps, _agents,
                    _deep_agents, objects, admitted, retry, burst >>

\* Mutant: a run that a stage's exception ends gives its rate-limit slot back
DeepStageReturnsRefunding(s, outcome) ==
    /\ tasks[s].kind = "deep"
    /\ LET t == tasks[s]
           seen == Append(t.seen, outcome)
           r == deep_resume(t, outcome)
       IN IF r.done
          THEN /\ tasks' = [tasks EXCEPT ![s] = NoTask]
               /\ event' = DeepReturnEvent(t, seen, r.result)
          ELSE /\ tasks' = [tasks EXCEPT ![s] = [r.task EXCEPT !.seen = seen]]
               /\ event' = [op |-> "stage", node |-> r.task.node,
                             ran |-> t.node, prompt |-> t.prompt,
                             outcome |-> outcome,
                             before |-> t.state, after |-> r.task.state]
    /\ _request_timestamps' =
          IF outcome.kind # "ok" /\ tasks[s].via = "http" /\ _request_timestamps # << >>
          THEN SubSeq(_request_timestamps, 1, Len(_request_timestamps) - 1)
          ELSE _request_timestamps
    /\ UNCHANGED << catalog, now, GOOGLE_API_KEY, _agents,
                    _deep_agents, objects, admitted, retry, burst >>

\* await self.llm.ainvoke([HumanMessage(content=...)]) of the running node
\* returns or raises
DeepStageReturns(s, outcome) ==
    /\ tasks[s].kind = "deep"
    /\ LET t == tasks[s]
           seen == Append(t.seen, outcome)
           r == deep_resume(t, outcome)
       IN IF r.done
          THEN /\ tasks' = [tasks EXCEPT ![s] = NoTask]
               /\ event' = DeepReturnEvent(t, seen, r.result)
          ELSE /\ tasks' = [tasks EXCEPT ![s] = [r.task EXCEPT !.seen = seen]]
               /\ event' = [op |-> "stage", node |-> r.task.node,
                             ran |-> t.node, prompt |-> t.prompt,
                             outcome |-> outcome,
                             before |-> t.state, after |-> r.task.state]
    /\ UNCHANGED << catalog, now, GOOGLE_API_KEY, _request_timestamps, _agents,
                    _deep_agents, objects, admitted, retry, burst >>

(* GET /agent/info, api.py:133-143: get_agent() on the default key, with no
   check_rate_limit; the HTTPException of a failed construction is caught *)

AgentInfo ==
    LET g == get_agent(_agents, GOOGLE_API_KEY, DEFAULT_MODEL, DEFAULT_MAX_TOKENS,
                       objects + 1)
    IN
    /\ _agents' = g.cache
    /\ objects' = objects + g.built
    /\ event' = [op |-> "agent_info", status |-> 200,
                 cache_key |-> << DEFAULT_MODEL, DEFAULT_MAX_TOKENS >>,
                 built |-> g.built,
                 body |-> IF g.raised
                          THEN [status |-> "not_configured",
                                message |-> "Agent not configured. Please set "
                                    \o "GOOGLE_API_KEY environment variable."]
                          ELSE get_info(g.agent)]
    /\ UNCHANGED << catalog, now, GOOGLE_API_KEY, _request_timestamps,
                    _deep_agents, tasks, admitted, retry, burst >>

(* GET /models *)

\* The provider puts a model on its list
ProviderAdds(model) ==
    /\ Len(catalog) < MaxListing
    /\ catalog' = Append(catalog, model)
    /\ event' = [op |-> "provider"]
    /\ UNCHANGED << now, GOOGLE_API_KEY, _request_timestamps, _agents,
                    _deep_agents, objects, tasks, admitted, retry, burst >>

\* The provider takes a model off its list
ProviderWithdraws(i) ==
    /\ i \in 1..Len(catalog)
    /\ catalog' = SubSeq(catalog, 1, i - 1) \o SubSeq(catalog, i + 1, Len(catalog))
    /\ event' = [op |-> "provider"]
    /\ UNCHANGED << now, GOOGLE_API_KEY, _request_timestamps, _agents,
                    _deep_agents, objects, tasks, admitted, retry, burst >>

GetModels(outcome) ==
    LET provider == IF outcome = "error" THEN [kind |-> "error"]
                    ELSE [kind |-> "listing", models |-> catalog]
        listed == list_available_models(GOOGLE_API_KEY, provider)
        answer == get_models(listed)
    IN
    /\ event' = [op |-> "models", provider |-> provider, listed |-> listed,
                 status |-> answer.status, models |-> answer.models]
    /\ UNCHANGED << catalog, now, GOOGLE_API_KEY, _request_timestamps, _agents,
                    _deep_agents, objects, tasks, admitted, retry, burst >>

----------------------------------------------------------------------------
(* Specifications *)

\* The gateway: the clock, the two gated endpoints and the coroutine they
\* start, one request at a time
Next ==
    \/ \E d \in Advances \cup RetryAdvances : Tick(d)
    \/ \E s \in OneSlot, mt \in TokenLimits, q \in Queries :
          Research(s, DEFAULT_MODEL, mt, q)
    \/ \E s \in OneSlot, q \in Queries : DeepResearch(s, DEFAULT_MODEL, q)
    \/ \E s \in OneSlot, o \in FewOutcomes : AinvokeReturns(s, o)
    \/ \E s \in OneSlot : SleepReturns(s)
    \/ \E s \in OneSlot, o \in FewOutcomes : DeepStageReturns(s, o)
    \/ AgentInfo

Spec == Init /\ [][Next]_vars

\* research() alone, called with every max_retries against every provider outcome
NextResearch ==
    \/ \E s \in OneSlot, m \in Models, mt \in TokenLimits, q \in Queries,
          mr \in (-1)..MaxRetries :
          DirectResearch(s, m, mt, q, mr)
    \/ \E s \in OneSlot, o \in Outcomes : AinvokeReturns(s, o)
    \/ \E s \in OneSlot : SleepReturns(s)

SpecResearch == Init /\ [][NextResearch]_vars

\* The provider answers every call, with a response or an error, and every
\* sleep ends
FairSpecResearch ==
    /\ SpecResearch
    /\ \A s \in OneSlot :
          /\ WF_vars(\E o \in Outcomes : AinvokeReturns(s, o))
          /\ WF_vars(SleepReturns(s))

\* deep_research() alone, against every provider outcome at every stage
NextDeep ==
    \/ \E s \in OneSlot, m \in Models, q \in Queries : DirectDeepResearch(s, m, q)
    \/ \E s \in OneSlot : \E o \in StageOutcomes(tasks[s]) : DeepStageReturns(s, o)

SpecDeep == Init /\ [][NextDeep]_vars

\* The outcomes the requests on the caches draw from
CacheOutcomes == {Ok(CHOOSE r \in Responses :
                         r.usage_metadata.present /\ ~r.flat.present
                             /\ r.usage_metadata.total_token_count > 0),
                  Exc("timeout")}

\* The caches: requests on every model and token limit, one at a time, all in
\* one window
NextCache ==
    \/ \E s \in OneSlot, r \in CacheRequests, q \in Queries :
          Research(s, r[1], r[2], q)
    \/ \E s \in OneSlot, m \in Models, q \in Queries : DeepResearch(s, m, q)
    \/ \E s \in OneSlot, o \in CacheOutcomes : AinvokeReturns(s, o)
    \/ \E s \in OneSlot, o \in CacheOutcomes : DeepStageReturns(s, o)
    \/ AgentInfo

SpecCache == Init /\ [][NextCache]_vars

\* The outcomes the concurrent requests draw from
ConcurrentOutcomes == {Ok(CHOOSE r \in Responses :
                              r.usage_metadata.present /\ ~r.flat.present
                                  /\ r.usage_metadata.total_token_count > 0),
                       Exc("429 Too Many Requests")}

\* The slot a new coroutine takes: the first free one (a slot is only a name
\* for a suspended coroutine).  With every slot taken a request can still be
\* answered 429 or 500, which suspend nothing.
FirstFree ==
    {s \in Slots : tasks[s] = NoTask /\ \A r \in Slots : r < s => tasks[r] # NoTask}
NewSlot == IF FirstFree = {} THEN OneSlot ELSE FirstFree

\* Concurrent requests on one cache key of each cache: several coroutines
\* suspended at once, each resumed when the provider answers or its sleep
\* ends, in any order; the clock stands still, all the requests fall in one
\* window
NextConcurrent ==
    \/ \E s \in NewSlot, mt \in TokenLimits, q \in Queries :
          Research(s, DEFAULT_MODEL, mt, q)
    \/ \E s \in NewSlot, q \in Queries : DeepResearch(s, DEFAULT_MODEL, q)
    \/ \E s \in Slots, o \in ConcurrentOutcomes : AinvokeReturns(s, o)
    \/ \E s \in Slots : SleepReturns(s)
    \/ \E s \in Slots, o \in ConcurrentOutcomes : DeepStageReturns(s, o)
    \/ AgentInfo

SpecConcurrent == Init /\ [][NextConcurrent]_vars

\* Deep researches side by side on the one cached instance of a model, each
\* on its own question, their stages resumed in any order; the clock stands
\* still, and no more than MaxInvocations requests are made
NextInterleaved ==
    \/ /\ Len(_request_timestamps) < MaxInvocations
       /\ \E s \in NewSlot, q \in DeepQueries : DeepResearch(s, DEFAULT_MODEL, q)
    \/ \E s \in Slots : \E o \in InterleavedOutcomes(tasks[s]) : DeepStageReturns(s, o)

SpecInterleaved == Init /\ [][NextInterleaved]_vars

\* The catalog endpoint, while the provider's list changes
NextModels ==
    \/ \E m \in ProviderModels : ProviderAdds(m)
    \/ \E i \in 1..MaxListing : ProviderWithdraws(i)
    \/ \E o \in ProviderOutcomes : GetModels(o)

SpecModels == Init /\ [][NextModels]_vars

----------------------------------------------------------------------------
(* The rate limiter *)

Gated == event.op \in {"research", "deep_research"}
Rejected == Gated /\ event.status = 429
Admitted == Gated /\ event.status # 429

\* The admitted timestamps in the closed interval of WINDOW seconds ending at t
InWindowUpTo(t) ==
    {j \in 1..Len(admitted) : admitted[j] >= t - WindowTicks /\ admitted[j] <= t}

\* C1: over any sequence of gated calls with a non-decreasing clock, no interval
\* of WINDOW seconds holds more than LIMIT admitted timestamps.  An interval with
\* more would have a last admitted timestamp, so it is enough to look at the
\* intervals ending at an admitted timestamp.
C1_AtMostLimitPerWindow ==
    \A i \in 1..Len(admitted) :
        Cardinality(InWindowUpTo(admitted[i])) <= MAX_REQUESTS_PER_WINDOW

\* C1's case: the window slid (the oldest timestamps expired and were replaced)
\* and is full again, and the call was rejected
C1_Witness ==
    /\ Rejected
    /\ Len(admitted) = MAX_REQUESTS_PER_WINDOW
    /\ admitted[1] > 0
    /\ admitted[1] < admitted[Len(admitted)]

\* C2: counting the gated calls from a call that found the window empty, the
\* first LIMIT calls made within WINDOW seconds of it are admitted and every
\* further call made within those WINDOW seconds is rejected with 429
C2_TenAdmittedThenRejected ==
    Gated =>
        /\ burst.n \in 1..MAX_REQUESTS_PER_WINDOW => event.status # 429
        /\ burst.n > MAX_REQUESTS_PER_WINDOW => event.status = 429

\* C2's case: the eleventh call, made at the very end of the window of the first
C2_Witness ==
    /\ Rejected
    /\ burst.n = MAX_REQUESTS_PER_WINDOW + 1
    /\ now = burst.first + WindowTicks

\* C3 as stated: with LIMIT timestamps held, a call at now - oldest >= WINDOW is admitted
C3_AdmittedAtWindow ==
    (Gated /\ Len(event.before) = MAX_REQUESTS_PER_WINDOW
           /\ now - Head(event.before) >= WindowTicks)
        => event.status # 429

\* C3 amended: with LIMIT timestamps held, a call made when more than WINDOW
\* seconds have passed since the oldest (now - oldest > WINDOW) is admitted
C3_AdmittedPastWindow ==
    (Gated /\ Len(event.before) = MAX_REQUESTS_PER_WINDOW
           /\ now - Head(event.before) > WindowTicks)
        => event.status # 429

C3_Witness ==
    /\ Admitted
    /\ Len(event.before) = MAX_REQUESTS_PER_WINDOW
    /\ now - Head(event.before) > WindowTicks

\* C4: a rejection reports wait = floor(WINDOW - (now - oldest)) + 1 seconds, and
\* a call made when that wait is over, no call having been admitted meanwhile, is
\* admitted.  floor(x) + 1 is the integer w with w - 1 <= x < w.
C4_WaitThenAdmitted ==
    /\ Rejected =>
          LET x == WindowTicks - (now - Head(_request_timestamps))
              w == event.wait_seconds
          IN (w - 1) * TicksPerSecond <= x /\ x < w * TicksPerSecond
    /\ (Gated /\ event.due) => event.status # 429

\* C4's case: a caller was rejected, waited what it was told, and is admitted
C4_Witness == Admitted /\ event.due

IsSuffixDroppingExpired(after, before, t) ==
    \E k \in 0..Len(before) :
        /\ after = SubSeq(before, k + 1, Len(before))
        /\ \A i \in 1..k : before[i] < t - WindowTicks

\* C5: a gated request rejected by the limiter starts no coroutine and issues no
\* completion call, constructs no agent, leaves both caches as they were and
\* records no timestamp; it may only drop expired timestamps
C5_RejectionChangesNothing ==
    [][ (event'.op \in {"research", "deep_research"} /\ event'.status = 429)
          => /\ tasks' = tasks
             /\ _agents' = _agents
             /\ _deep_agents' = _deep_agents
             /\ objects' = objects
             /\ IsSuffixDroppingExpired(_request_timestamps', _request_timestamps, now)
      ]_vars

\* C5's case: a rejected /deep-research whose agent was not in the cache, so that
\* an admitted one would have constructed it and issued a call
C5_Witness ==
    /\ Rejected
    /\ event.op = "deep_research"
    /\ GOOGLE_API_KEY
    /\ _deep_agents = << >>
    /\ \A s \in Slots : tasks[s] = NoTask

----------------------------------------------------------------------------
(* research(): retries and error conversion *)

Finished == event.op = "returned"

IsRateLimited(o) == o.kind = "exc" /\ o.text \in RateLimitErrors
IsOtherError(o) == o.kind = "exc" /\ o.text \in OtherErrors
AllRateLimited(seen) == \A i \in 1..Len(seen) : IsRateLimited(seen[i])
Last(seq) == seq[Len(seq)]

RECURSIVE SumSeq(_)
SumSeq(seq) == IF seq = << >> THEN 0 ELSE Head(seq) + SumSeq(Tail(seq))

\* The sum of 2^i for i in 0..n-1
RECURSIVE SumOfPowers(_)
SumOfPowers(n) == IF n <= 0 THEN 0 ELSE 2 ^ (n - 1) + SumOfPowers(n - 1)

NoUsage == [prompt_tokens |-> 0, completion_tokens |-> 0, total_tokens |-> 0]

\* C6: against a provider that fails every call with a rate-limit error, a
\* research() never makes more than max_retries retries (max_retries + 1 calls),
\* its k-th wait is 2^(k-1) seconds, and when it returns it has waited 2^0, ...,
\* 2^(max_retries-1) seconds in that order, their sum in total, the last call
\* not being followed by a wait
C6_BoundedRetriesExponentialBackoff ==
    /\ \A s \in Slots :
          (tasks[s].kind = "research" /\ AllRateLimited(tasks[s].seen)) =>
              /\ tasks[s].calls <= tasks[s].max_retries + 1
              /\ Len(tasks[s].sleeps) <= tasks[s].max_retries
              /\ \A k \in 1..Len(tasks[s].sleeps) : tasks[s].sleeps[k] = 2 ^ (k - 1)
    /\ (Finished /\ AllRateLimited(event.seen)) =>
          /\ event.calls <= event.max_retries + 1
          /\ event.sleeps = [k \in 1..event.max_retries |-> 2 ^ (k - 1)]
          /\ SumSeq(event.sleeps) = SumOfPowers(event.max_retries)
          /\ event.calls >= 1 => Len(event.sleeps) = event.calls - 1

\* C6's case: every call failed with a rate-limit error and the retries ran out
C6_Witness ==
    /\ Finished
    /\ event.max_retries >= 2
    /\ Len(event.seen) = event.max_retries + 1
    /\ AllRateLimited(event.seen)

\* C7: when every attempt (there is at least one) fails with a rate-limit
\* error, research() returns a text containing "API Quota Exceeded" and a usage
\* of zeros
C7_QuotaMessageZeroUsage ==
    (Finished /\ event.calls >= 1 /\ AllRateLimited(event.seen)) =>
        /\ event.result.kind = "returned"
        /\ Contains(event.result.text, "API Quota Exceeded")
        /\ event.result.usage = NoUsage

\* C7's case: the retries ran out on the quota-exhaustion marker
C7_Witness ==
    /\ Finished
    /\ event.max_retries >= 1
    /\ Len(event.seen) = event.max_retries + 1
    /\ \A i \in 1..Len(event.seen) : event.seen[i] = Exc("Quota RESOURCE_EXHAUSTED")

StartsWith(s, head) == Len(s) >= Len(head) /\ SubSeq(s, 1, Len(head)) = head
EndsWith(s, tail) ==
    Len(s) >= Len(tail) /\ SubSeq(s, Len(s) - Len(tail) + 1, Len(s)) = tail

\* C8: a completion call failing with an error that is not a rate-limit error,
\* at any attempt, ends research() at once: no coroutine goes on after such an
\* error, and the one that returns has issued no call and taken no wait after
\* it, and returns the fixed error message with a usage of zeros
C8_OtherErrorReturnsAtOnce ==
    /\ \A s \in Slots :
          tasks[s].kind = "research" => AllRateLimited(tasks[s].seen)
    /\ (Finished /\ event.seen # << >> /\ IsOtherError(Last(event.seen))) =>
          /\ event.result.kind = "returned"
          /\ StartsWith(event.result.text, "# **Error during research:**")
          /\ EndsWith(event.result.text, "Please check your API key and try again.")
          /\ event.result.usage = NoUsage
          /\ event.calls = Len(event.seen)
          /\ Len(event.sleeps) = Len(event.seen) - 1

\* C8's case: the error came at an attempt reached after rate-limit retries
C8_Witness ==
    /\ Finished
    /\ Len(event.seen) >= 3
    /\ IsOtherError(Last(event.seen))

\* C9 as stated: the message for a non-rate-limit error carries at most the
\* first 200 characters of the error text
C9_ErrorTextTruncated ==
    (Finished /\ event.seen # << >> /\ IsOtherError(Last(event.seen))) =>
        event.result.text =
            ErrorHead \o Prefix(Last(event.seen).text, 200) \o ErrorTail

\* C9 amended: the message for a non-rate-limit error carries the error text in
\* full, whatever its length; it is the quota-exceeded message, returned when
\* the rate-limit retries run out, that ends with at most the first 200
\* characters of the error text
C9_ErrorTextInFull ==
    /\ (Finished /\ event.seen # << >> /\ IsOtherError(Last(event.seen))) =>
          event.result.text = ErrorHead \o Last(event.seen).text \o ErrorTail
    /\ (Finished /\ event.seen # << >> /\ IsRateLimited(Last(event.seen))) =>
          EndsWith(event.result.text,
                   "**Error details:** " \o Prefix(Last(event.seen).text, 200))

\* C9's case: an error text of more than 200 characters
C9_Witness ==
    /\ Finished
    /\ event.seen # << >>
    /\ IsOtherError(Last(event.seen))
    /\ Len(Last(event.seen).text) > 200

\* C10: whatever the query, max_retries and the provider's outcomes, a
\* research() that was called returns, and what it leaves is a (text, usage)
\* pair, never an exception
C10_AlwaysReturnsAPair ==
    /\ [](Finished => event.result.kind = "returned")
    /\ \A s \in Slots : (tasks[s] # NoTask) ~> (Finished /\ tasks[s] = NoTask)

\* C10's case: a success reached after rate-limit retries
C10_Witness ==
    /\ Finished
    /\ event.result.kind = "returned"
    /\ Len(event.seen) >= 2
    /\ Last(event.seen).kind = "ok"

----------------------------------------------------------------------------
(* deep_research(): the seven stages *)

DeepFinished == event.op = "deep_returned"
AllOk(seen) == \A i \in 1..Len(seen) : seen[i].kind = "ok"
DeepSucceeded == DeepFinished /\ AllOk(event.seen)
DeepFailed == DeepFinished /\ ~AllOk(event.seen)

IsPrefixOf(a, b) == Len(a) <= Len(b) /\ a = SubSeq(b, 1, Len(a))

\* The order of the stages as the claims give it
StageOrder == << "plan", "market_analysis", "user_insights", "competitive_analysis",
                 "risk_assessment", "devils_advocate", "synthesize" >>

\* C11: the completion calls of a deep_research() are issued in the order plan,
\* market analysis, user insights, competitive landscape, risk assessment,
\* devil's advocate, synthesis, without branching or retry: the calls issued so
\* far are the first stages of that order, one each; the call of a stage is
\* issued only when the calls of all the stages before it have returned, with a
\* response; and a run that succeeds has issued seven calls, one per stage
C11_StagesInFixedOrder ==
    /\ \A s \in Slots :
          tasks[s].kind = "deep" =>
              /\ IsPrefixOf(tasks[s].issued, StageOrder)
              /\ tasks[s].calls = Len(tasks[s].issued)
              /\ Len(tasks[s].seen) = Len(tasks[s].issued) - 1
              /\ AllOk(tasks[s].seen)
              /\ tasks[s].prompt = StagePrompt(Last(tasks[s].issued), tasks[s].state)
    /\ DeepFinished =>
          /\ IsPrefixOf(event.issued, StageOrder)
          /\ event.calls = Len(event.issued)
          /\ Len(event.seen) = Len(event.issued)
          /\ AllOk(SubSeq(event.seen, 1, Len(event.seen) - 1))
    /\ DeepSucceeded =>
          /\ event.issued = StageOrder
          /\ event.calls = 7

\* C11's case: a run whose seven calls all returned a response
C11_Witness ==
    /\ DeepSucceeded
    /\ Len(event.seen) = 7
    /\ event.result.report # ""

\* What the counts in usage_metadata of one stage's call come to, the total
\* taken as prompt + candidates
StageUsage(o) ==
    LET r == o.response
        p == IF r.has_response_metadata /\ r.usage_metadata.present
             THEN r.usage_metadata.prompt_token_count ELSE 0
        c == IF r.has_response_metadata /\ r.usage_metadata.present
             THEN r.usage_metadata.candidates_token_count ELSE 0
    IN [prompt_tokens |-> p, completion_tokens |-> c, total_tokens |-> p + c]

RECURSIVE SumUsage(_, _)
SumUsage(seen, field) ==
    IF seen = << >> THEN 0
    ELSE StageUsage(Head(seen))[field] + SumUsage(Tail(seen), field)

\* The usage totals of the calls of a run, each as the completion client
\* reports it for the response and the prompt of the call (the structured
\* usage metadata with the provider's total, else the flat counts, else the
\* estimate), added up along the run
RECURSIVE SumReportedTotals(_, _)
SumReportedTotals(task, seen) ==
    IF seen = << >> THEN 0
    ELSE LET o == Head(seen)
             own == IF o.kind = "ok"
                    THEN extract_usage(o.response, task.prompt).total_tokens
                    ELSE 0
             r == deep_resume(task, o)
         IN IF r.done THEN own
            ELSE own + SumReportedTotals(r.task, Tail(seen))

Position(s, sub) ==
    LET at == {i \in 1..(Len(s) - Len(sub) + 1) : SubSeq(s, i, i + Len(sub) - 1) = sub}
    IN IF at = {} THEN 0 ELSE CHOOSE i \in at : \A j \in at : i <= j

\* The text is the whole of a section: it follows a "## " heading line and is
\* the line after it
UnderAHeading(report, text) ==
    LET at == Position(report, "\n" \o text \o "\n") IN
    /\ at > 0
    /\ \E h \in 1..at :
          /\ SubSeq(report, h, h + 2) = "## "
          /\ (h = 1 \/ SubSeq(report, h - 1, h - 1) = "\n")
          /\ ~Contains(SubSeq(report, h, at - 1), "\n")

\* C13 as stated: the report of a successful run holds the output of every one
\* of the seven stages, the plan included, each under a heading, in stage order
C13_ReportHoldsEveryStageOutput ==
    DeepSucceeded =>
        /\ \A k \in 1..7 :
              UnderAHeading(event.result.report, event.seen[k].response.content)
        /\ \A j, k \in 1..7 :
              j < k => Position(event.result.report, event.seen[j].response.content)
                         < Position(event.result.report, event.seen[k].response.content)

\* C14: when the completion call of stage k raises, no call of a later stage
\* is issued and deep_research() returns the error report beginning "Deep
\* Research Error" and carrying the error text, with a usage of zeros and an
\* error field; the text holds no output of the stages 1..k-1 and the tokens
\* they consumed are not reported
C14_StageErrorEndsTheRun ==
    DeepFailed =>
        LET k == Len(event.seen)
            e == Last(event.seen).text
            md == event.result.metadata
        IN /\ Last(event.seen).kind = "exc"
           /\ event.calls = k
           /\ event.issued = SubSeq(StageOrder, 1, k)
           /\ StartsWith(event.result.report, "# **Deep Research Error**\n")
           /\ Contains(event.result.report, "process:\n" \o e \o "\n")
           /\ DOMAIN md = {"error", "prompt_tokens", "completion_tokens", "total_tokens"}
           /\ md.error = e
           /\ md.prompt_tokens = 0 /\ md.completion_tokens = 0 /\ md.total_tokens = 0
           /\ \A j \in 1..(k - 1) :
                 ~Contains(event.result.report, event.seen[j].response.content)

\* C14's case: the call of a middle stage raised after stages that had
\* consumed tokens
C14_Witness ==
    /\ DeepFailed
    /\ Len(event.seen) = 4
    /\ SumUsage(SubSeq(event.seen, 1, 3), "total_tokens") > 0
    /\ event.result.metadata.total_tokens = 0

----------------------------------------------------------------------------
(* The gateway: caches, configuration errors, status codes *)

Started == Gated /\ event.status = 0
CacheOf(op) == IF op = "research" THEN _agents ELSE _deep_agents
Instances == {_agents[k] : k \in DOMAIN _agents}
                 \cup {_deep_agents[m] : m \in DOMAIN _deep_agents}

\* One instance per key, each the one constructed for that key, no two keys
\* sharing an instance
OneInstancePerKey ==
    /\ objects = Cardinality(DOMAIN _agents) + Cardinality(DOMAIN _deep_agents)
    /\ Cardinality({a.id : a \in Instances}) = objects
    /\ \A k \in DOMAIN _agents :
          _agents[k].model_name = k[1] /\ _agents[k].max_tokens = k[2]
    /\ \A m \in DOMAIN _deep_agents : _deep_agents[m].model_name = m

\* The coroutine a request started runs on the instance the cache holds for
\* the request's key
RunsOnCachedInstance(task) ==
    /\ (task.kind = "research" /\ task.via = "http") =>
          LET k == << task.agent.model_name, task.agent.max_tokens >> IN
          k \in DOMAIN _agents /\ _agents[k] = task.agent
    /\ (task.kind = "deep" /\ task.via = "http") =>
          /\ task.agent.model_name \in DOMAIN _deep_agents
          /\ _deep_agents[task.agent.model_name] = task.agent

\* C15: over any sequence of requests the gateway constructs at most one
\* ResearchAgent per (model_name, max_tokens) and one DeepResearchAgent per
\* model_name: an instance is constructed only by the first request that gets
\* as far as its key, every later request with that key runs on that same
\* instance, and no entry is ever removed or replaced
C15_OneInstancePerCacheKey ==
    /\ [](OneInstancePerKey /\ \A s \in Slots : RunsOnCachedInstance(tasks[s]))
    /\ [][ /\ \A k \in DOMAIN _agents :
                 k \in DOMAIN _agents' /\ _agents'[k] = _agents[k]
           /\ \A m \in DOMAIN _deep_agents :
                 m \in DOMAIN _deep_agents' /\ _deep_agents'[m] = _deep_agents[m]
           /\ (event'.op = "research" /\ event'.status = 0) =>
                 /\ event'.built = IF event'.cache_key \in DOMAIN _agents THEN 0 ELSE 1
                 /\ objects' = objects + event'.built
           /\ (event'.op = "deep_research" /\ event'.status = 0) =>
                 /\ event'.built =
                        IF event'.cache_key \in DOMAIN _deep_agents THEN 0 ELSE 1
                 /\ objects' = objects + event'.built
           /\ event'.op = "agent_info" =>
                 /\ event'.built =
                        IF event'.cache_key \in DOMAIN _agents \/ ~GOOGLE_API_KEY
                        THEN 0 ELSE 1
                 /\ objects' = objects + event'.built
         ]_vars

\* C15's case: a request whose key is in the cache, among other keys, starts
\* its coroutine without constructing anything
C15_Witness ==
    /\ Started
    /\ event.op = "research"
    /\ event.built = 0
    /\ Cardinality(DOMAIN _agents) = 3
    /\ Cardinality(DOMAIN _deep_agents) = 2

\* C16: with no credential configured, every request the limiter admits is
\* answered HTTP 500 by the failing constructor, on /research and on
\* /deep-research alike: no coroutine is started (no completion call), nothing
\* is constructed and nothing enters either cache, so that the next request
\* with the same key runs the constructor again and is answered 500 again
C16_NoCredentialIsHttp500 ==
    /\ ~GOOGLE_API_KEY =>
          /\ _agents = << >> /\ _deep_agents = << >> /\ objects = 0
          /\ \A s \in Slots : tasks[s] = NoTask
          /\ Gated => event.status \in {429, 500}
          /\ Gated => (event.status = 429 <=> AtLimit(PopExpired(event.before, now)))
    /\ (Gated /\ event.status = 500) => ~GOOGLE_API_KEY

\* C16's case: the tenth request of a window without a credential: some key
\* has been asked for more than once (there are five keys), and the answer is
\* still 500, on /deep-research
C16_Witness ==
    /\ ~GOOGLE_API_KEY
    /\ Gated /\ event.status = 500 /\ event.op = "deep_research"
    /\ Len(_request_timestamps) = MAX_REQUESTS_PER_WINDOW

HttpReturned == (Finished \/ DeepFinished) /\ event.via = "http"

\* C17 as stated: a failure of POST /research or POST /deep-research is
\* answered with a real HTTP error code only by the rate limiter (429); every
\* other answer is a 200 payload
C17_OnlyRateLimitIsAnHttpError ==
    /\ Gated => event.status \in {0, 429}
    /\ HttpReturned => event.status = 200

\* C17 amended: the failures of the two endpoints answered with a real HTTP
\* error code are the rate limiter's (429) and the agent construction without
\* a credential (500); every failure of a completion call, in research() and
\* at any stage of deep_research(), is answered 200 with the error message as
\* the result text
C17_ProviderFailuresAre200 ==
    /\ Gated => event.status \in {0, 429, 500}
    /\ Gated => (event.status = 429 <=> AtLimit(PopExpired(event.before, now)))
    /\ Gated => (event.status = 500 <=>
                    (~GOOGLE_API_KEY /\ ~AtLimit(PopExpired(event.before, now))))
    /\ (Finished /\ event.via = "http") =>
          /\ event.status = 200
          /\ event.result.kind = "returned"
          /\ Last(event.seen).kind = "exc" =>
                \/ StartsWith(event.result.text, "# **API Quota Exceeded**")
                \/ StartsWith(event.result.text, "# **Error during research:**")
    /\ (DeepFinished /\ event.via = "http") =>
          /\ event.status = 200
          /\ event.response.result = event.result.report
          /\ Last(event.seen).kind = "exc" =>
                StartsWith(event.response.result, "# **Deep Research Error**")

\* C17's case: a /deep-research whose pipeline failed at a late stage
C17_Witness ==
    /\ DeepFailed /\ event.via = "http"
    /\ Len(event.seen) >= 6
    /\ event.status = 200

----------------------------------------------------------------------------
(* research(): the usage of a successful completion *)

\* The usage the extraction order gives for a response: (a) the structured
\* usage metadata, (b) the flat counts, (c) the estimate
UsageInOrder(response, prompt) ==
    LET hasA == response.has_response_metadata /\ response.usage_metadata.present
        hasB == response.has_response_metadata /\ response.flat.present
        totalA == IF hasA THEN response.usage_metadata.total_token_count ELSE 0
        totalB == IF hasB THEN response.flat.total_token_count ELSE 0
    IN  IF totalA # 0
        THEN [prompt_tokens |-> response.usage_metadata.prompt_token_count,
              completion_tokens |-> response.usage_metadata.candidates_token_count,
              total_tokens |-> totalA]
        ELSE IF totalB # 0
        THEN [prompt_tokens |-> response.flat.prompt_token_count,
              completion_tokens |-> response.flat.candidates_token_count,
              total_tokens |-> totalB]
        ELSE [prompt_tokens |-> Len(prompt) \div 4,
              completion_tokens |-> Len(response.content) \div 4,
              total_tokens |-> Len(prompt) \div 4 + Len(response.content) \div 4]

\* The prompt of the calls of the research() that has just returned
PromptOf(max_tokens, query) ==
    "Answer this concisely in " \o ToString(max_tokens \div 2)
        \o " words or less. Be direct and factual. No preamble or conclusion.\n\n"
        \o "Question: " \o query

\* C18: the usage research() returns with a successful completion is the
\* structured usage metadata when its total is not zero, else the flat counts
\* when their total is not zero, else the estimate floor(len(prompt) / 4),
\* floor(len(text) / 4) and their sum
C18_UsageExtractionOrder ==
    (Finished /\ event.seen # << >> /\ Last(event.seen).kind = "ok") =>
        /\ event.result.kind = "returned"
        /\ event.result.text = Last(event.seen).response.content
        /\ \E mt \in TokenLimits, q \in Queries :
              event.result.usage = UsageInOrder(Last(event.seen).response, PromptOf(mt, q))

\* C18's case: structured counts whose total is zero and flat counts whose
\* total is not: the flat counts are returned
C18_Witness ==
    /\ Finished /\ event.seen # << >> /\ Last(event.seen).kind = "ok"
    /\ Last(event.seen).response.usage_metadata.present
    /\ Last(event.seen).response.usage_metadata.total_token_count = 0
    /\ Last(event.seen).response.flat.present
    /\ event.result.usage = [prompt_tokens |-> 7, completion_tokens |-> 2,
                             total_tokens |-> 9]

----------------------------------------------------------------------------
(* Concurrent requests *)

Suspended == {s \in Slots : tasks[s] # NoTask}

\* C19: with the requests suspended only at a completion call or a sleep and
\* resumed in any order, the deque holds the timestamp of every admitted
\* request, once each and in the order of admission, never more than LIMIT of
\* them in a window, and each cache key has had one instance constructed, on
\* which every coroutine of that key runs
C19_InterleavingsKeepStateConsistent ==
    /\ _request_timestamps = admitted
    /\ Len(_request_timestamps) <= MAX_REQUESTS_PER_WINDOW
    /\ \A i \in 1..Len(admitted) :
          Cardinality(InWindowUpTo(admitted[i])) <= MAX_REQUESTS_PER_WINDOW
    /\ objects = Cardinality(DOMAIN _agents) + Cardinality(DOMAIN _deep_agents)
    /\ \A s \in Slots : RunsOnCachedInstance(tasks[s])
    /\ Cardinality(Suspended) <= Len(_request_timestamps)

\* C19's case: a request arrives at a full window while two coroutines of the
\* same endpoint are suspended on the one cached instance, one at its
\* completion call and one in its backoff sleep
C19_Witness ==
    /\ Rejected
    /\ Len(_request_timestamps) = MAX_REQUESTS_PER_WINDOW
    /\ \E s, r \in Slots :
          /\ tasks[s].kind = "research" /\ tasks[s].pc = "sleep"
          /\ tasks[r].kind = "research" /\ tasks[r].pc = "ainvoke"
          /\ tasks[s].agent = tasks[r].agent
    /\ objects = 1

\* C20: right after a check_rate_limit call, whether it admitted or rejected,
\* every timestamp the deque retains is at most WINDOW old; expired timestamps
\* stay in the deque until the next call
C20_RetainedWithinWindowAfterCheck ==
    Gated => \A i \in 1..Len(_request_timestamps) :
                 now - _request_timestamps[i] <= WindowTicks

\* C20's case: the call found several expired timestamps, left there since the
\* last call, and dropped them
C20_Witness ==
    /\ Gated
    /\ Len(event.before) >= Len(_request_timestamps) + 2
    /\ now - Head(event.before) > WindowTicks

----------------------------------------------------------------------------
(* The model catalog *)

\* GET /models has just been answered
ModelsAnswered == event.op = "models"

\* ... from a listing the provider gave
ModelsListed ==
    /\ ModelsAnswered
    /\ event.listed.contacted
    /\ event.provider.kind = "listing"

\* The markers of a price tier, in the order they are looked for
PriceMarkers == << << "exp", 0 >>, << "flash", 1 >>, << "pro", 2 >>, << "ultra", 3 >> >>

\* The tier of the first marker the lower-cased name contains, 1 without one
FirstMatchTier(name) ==
    LET hits == {i \in 1..Len(PriceMarkers) : Contains(Lower(name), PriceMarkers[i][1])} IN
    IF hits = {} THEN 1
    ELSE PriceMarkers[CHOOSE i \in hits : \A j \in hits : i <= j][2]

\* A listed model the catalog takes: it can generateContent, or does not say
Generative(model) ==
    \/ "supported_generation_methods" \notin DOMAIN model
    \/ "generateContent" \in model.supported_generation_methods

\* The names of catalog entries, and the names the catalog gives to listed
\* models: the provider's name without "models/", the model's text form for a
\* model without a name
Names(models) == [i \in 1..Len(models) |-> models[i].name]
ListedNames(models) ==
    [i \in 1..Len(models) |->
        IF "name" \in DOMAIN models[i]
        THEN Remove(models[i].name, "models/") ELSE models[i].str]

\* C21: for every provider listing the catalog comes back sorted
\* non-decreasing by price_tier, the models of one tier in the order the
\* provider listed them, the tier being that of the first marker (exp, flash,
\* pro, ultra in this order, else 1) in the lower-cased name; so a model with
\* 'exp' in its name is never in a dearer tier than, or after a dearer, model
\* with 'pro' in its name.
C21_CatalogSortedStablyByTier ==
    ModelsListed =>
        LET out == event.listed.models
            given == SelectSeq(event.provider.models, Generative)
        IN
        /\ \A i \in 1..Len(out) : out[i].price_tier = FirstMatchTier(out[i].name)
        /\ \A i, j \in 1..Len(out) : i < j => out[i].price_tier <= out[j].price_tier
        /\ \A t \in 0..3 :
              Names(SelectSeq(out, LAMBDA m : m.price_tier = t))
                  = SelectSeq(ListedNames(given), LAMBDA n : FirstMatchTier(n) = t)
        /\ \A i, j \in 1..Len(out) :
              (Contains(Lower(out[i].name), "exp") /\ Contains(Lower(out[j].name), "pro"))
                  => /\ out[i].price_tier <= out[j].price_tier
                     /\ (i <= j \/ out[i].price_tier = out[j].price_tier)

\* Three models came back: two of one tier, and a model with 'exp' in its name
\* ahead of a 'pro' model the provider had listed before it
C21_Witness ==
    /\ ModelsListed
    /\ Len(event.listed.models) = 3
    /\ LET out == event.listed.models
           given == ListedNames(event.provider.models)
       IN
       /\ \E i, j \in 1..3 : i < j /\ out[i].price_tier = out[j].price_tier
       /\ \E i, j \in 1..3 :
             /\ i < j
             /\ Contains(Lower(out[i].name), "exp") /\ Contains(Lower(out[i].name), "flash")
             /\ out[j].price_tier = 2
             /\ \E a, b \in 1..Len(given) : a < b /\ given[a] = out[j].name /\ given[b] = out[i].name

\* C22: list_available_models never raises; without a credential it returns
\* the empty list and the provider is not contacted; when the provider raises
\* it returns the fixed two-entry list; GET /models answers 500 exactly when
\* the list it got is empty, and 200 with that list otherwise.
C22_CatalogNeverRaises ==
    ModelsAnswered =>
        /\ ~event.listed.raised
        /\ ~GOOGLE_API_KEY =>
              (event.listed.models = << >> /\ ~event.listed.contacted)
        /\ (GOOGLE_API_KEY /\ event.provider.kind = "error") =>
              /\ event.listed.models = FallbackModels
              /\ Names(event.listed.models) = << "gemini-1.5-flash", "gemini-1.5-pro" >>
        /\ event.status = 500 <=> event.listed.models = << >>
        /\ event.status \in {200, 500}
        /\ event.status = 200 => event.models = event.listed.models

\* The provider raised while it had models to list; the fallback list was
\* answered with 200
C22_Witness ==
    /\ ModelsAnswered
    /\ GOOGLE_API_KEY
    /\ event.provider.kind = "error"
    /\ catalog # << >>
    /\ event.status = 200
    /\ Len(event.models) = 2

----------------------------------------------------------------------------
(* The stages of the deep pipeline *)

\* A node's completion call has just returned a response and the node has run
\* to its end
StageRan ==
    /\ event.op \in {"stage", "deep_returned"}
    /\ event.outcome.kind = "ok"

\* What the node added to the running usage
UsageDelta(before, after) ==
    [prompt_tokens |-> after.prompt_tokens - before.prompt_tokens,
     completion_tokens |-> after.completion_tokens - before.completion_tokens,
     total_tokens |-> after.total_tokens - before.total_tokens]

\* C23: the usage a stage adds to the running total for a response is the
\* usage the single-shot path reports for the same response: the structured
\* usage metadata, else the flat counts, else the estimate of a quarter of
\* the characters of the prompt and of the answer.
C23_StageDeltaIsSingleShotUsage ==
    StageRan =>
        UsageDelta(event.before, event.after)
            = extract_usage(event.outcome.response, event.prompt)

\* The result fields of the pipeline state
ResultFields == {StageField[k] : k \in 1..DEEP_STAGES} \cup {"final_report"}

\* The result fields a step changed
Written(before, after) == {f \in ResultFields : after[f] # before[f]}

\* The state with the result fields no stage before stage k writes blotted out
Blotted(state, k) ==
    [f \in DOMAIN state |->
        IF f = "final_report" \/ \E j \in k..DEEP_STAGES : f = StageField[j]
        THEN "?" ELSE state[f]]

\* What a stage leaves alone, what it adds and what it reads: the query and
\* the outputs of the earlier stages are as before, the running usage has
\* grown by the usage of the call, and neither the prompt nor the fields
\* written depend on a result field that no earlier stage has written
StageFrame(k) ==
    /\ event.after.query = event.before.query
    /\ \A j \in 1..(k - 1) : event.after[StageField[j]] = event.before[StageField[j]]
    /\ \A j \in 1..(k - 1) : event.before[StageField[j]] # ""
    /\ UsageDelta(event.before, event.after) = StageUsage(event.outcome)
    /\ event.prompt = StagePrompt(event.ran, Blotted(event.before, k))
    /\ \A f \in Written(event.before, event.after) :
          run_stage(Blotted(event.before, k), k, event.outcome.response)[f]
              = event.after[f]

\* C24 as stated: every stage writes exactly one result field, its own
C24_EveryStageWritesOneField ==
    StageRan =>
        /\ Written(event.before, event.after) = {StageField[StageOf(event.ran)]}
        /\ StageFrame(StageOf(event.ran))

\* C24: every stage writes its own result field, the last stage the final
\* report as well and no stage any other result field; it adds the usage of
\* its call to the cumulative usage, leaves the query and the outputs of the
\* earlier stages unchanged, and reads only fields an earlier stage has
\* written.
C24_StageWritesOwnFieldAndFrame ==
    StageRan =>
        LET k == StageOf(event.ran) IN
        /\ Written(event.before, event.after) =
              {StageField[k]} \cup (IF k = DEEP_STAGES THEN {"final_report"} ELSE {})
        /\ StageFrame(k)

\* The last stage has run on the outputs of the six before it: it wrote the
\* recommendations and the final report, and its call reported a usage
C24_Witness ==
    /\ StageRan
    /\ event.ran = "synthesize"
    /\ event.before.recommendations = "" /\ event.before.final_report = ""
    /\ event.after.recommendations = StageContent[7]
    /\ event.after.final_report # ""
    /\ \A j \in 1..6 : event.after[StageField[j]] = StageContent[j]
    /\ event.after.total_tokens > event.before.total_tokens

----------------------------------------------------------------------------
(* Invocations side by side on one instance *)

\* An invocation run alone from a fresh pipeline state through the outcomes
\* of its own calls
RECURSIVE Alone(_, _)
Alone(task, seen) ==
    IF seen = << >> THEN [done |-> FALSE, task |-> task]
    ELSE LET r == deep_resume(task, Head(seen)) IN
         IF r.done THEN r ELSE Alone(r.task, Tail(seen))

\* C25: deep_research invocations interleaved on the one cached instance each
\* work on a pipeline state created for them: while one runs its state is
\* the state of a run alone through its own calls so far, and what it returns
\* (stage outputs in the report, cumulative usage) is what its own calls
\* gave, whatever the stages of the other invocations did.
C25_InterleavedRunsKeepTheirOwnState ==
    /\ \A s \in Slots :
          tasks[s].kind = "deep" =>
              /\ tasks[s].state.query = tasks[s].query
              /\ tasks[s].state =
                     Alone(DeepTask(tasks[s].agent, tasks[s].query, tasks[s].via),
                           tasks[s].seen).task.state
    /\ (DeepFinished /\ event.via = "http") =>
          /\ event.result =
                 Alone(DeepTask(_deep_agents[DEFAULT_MODEL], event.query, "http"),
                       event.seen).result
          /\ DeepSucceeded =>
                /\ event.after.query = event.query
                /\ \A j \in 1..DEEP_STAGES :
                      event.after[StageField[j]] = event.seen[j].response.content
                /\ \A j \in 2..DEEP_STAGES :
                      Contains(event.result.report, event.seen[j].response.content)
                /\ event.result.metadata.prompt_tokens
                       = SumUsage(event.seen, "prompt_tokens")
                /\ event.result.metadata.completion_tokens
                       = SumUsage(event.seen, "completion_tokens")
                /\ event.result.metadata.total_tokens
                       = SumUsage(event.seen, "total_tokens")

\* An invocation returns its report after seven calls while another one, on
\* another question and on the same instance, is in the middle of its stages
C25_Witness ==
    /\ DeepSucceeded
    /\ event.via = "http"
    /\ objects = 1
    /\ \E s \in Slots :
          /\ tasks[s].kind = "deep"
          /\ tasks[s].agent = _deep_agents[DEFAULT_MODEL]
          /\ tasks[s].query # event.query
          /\ Len(tasks[s].seen) \in 2..5

----------------------------------------------------------------------------
(* The rate-limit slot of a request *)

\* The timestamps of a deque that have not expired at time t
Unexpired(ts, t) == SelectSeq(ts, LAMBDA x : x >= t - WindowTicks)

\* C26: an admitted request records one timestamp, at its admission, whatever
\* number of completion calls it goes on to make, and a rejected one records
\* none; no later step of the request (a completion call returning or
\* raising, a sleep, the construction failing with 500, the pipeline giving
\* up) takes a timestamp out: the unexpired timestamps of the deque are those
\* of the admitted requests, and the only step that removes timestamps is a
\* gated call, which removes the expired ones.
C26_OneTimestampNeverRefunded ==
    /\ [](/\ Unexpired(_request_timestamps, now) = Unexpired(admitted, now)
          /\ Admitted =>
                _request_timestamps = Append(Unexpired(event.before, now), now)
          /\ Rejected => _request_timestamps = Unexpired(event.before, now))
    /\ [][ IF event'.op \in {"research", "deep_research"}
           THEN /\ Unexpired(_request_timestamps, now) =
                      SubSeq(_request_timestamps',
                             1, Len(Unexpired(_request_timestamps, now)))
                /\ Len(_request_timestamps') <=
                      Len(Unexpired(_request_timestamps, now)) + 1
           ELSE _request_timestamps' = _request_timestamps
         ]_vars

\* A deep research through the gateway gave up when its third call or a later
\* one raised, some time after its admission: its timestamp is still the
\* last of the deque
C26_Witness ==
    /\ DeepFailed
    /\ event.via = "http"
    /\ Len(event.seen) >= 3
    /\ _request_timestamps # << >>
    /\ _request_timestamps = admitted
    /\ _request_timestamps[Len(_request_timestamps)] < now

\* C27: the deque never holds more than LIMIT timestamps, so its capacity of
\* 50 is not reached and the append of an admitted call pushes nothing out:
\* every timestamp a gated call found in the deque and that is gone after it
\* had expired.
C27_WindowNeverReachesCapacity ==
    /\ Len(_request_timestamps) <= MAX_REQUESTS_PER_WINDOW
    /\ Len(_request_timestamps) < DEQUE_MAXLEN
    /\ Gated =>
          /\ Len(event.before) <= MAX_REQUESTS_PER_WINDOW
          /\ \A i \in 1..Len(event.before) :
                event.before[i] >= now - WindowTicks =>
                    \E j \in 1..Len(_request_timestamps) :
                        /\ _request_timestamps[j] = event.before[i]
                        /\ Len(event.before) - i = Len(_request_timestamps) - j
                               - (IF Admitted THEN 1 ELSE 0)

\* A call found LIMIT timestamps, the oldest expired, and was admitted: the
\* deque holds LIMIT timestamps again, the nine that had not expired and its
\* own
C27_Witness ==
    /\ Admitted
    /\ Len(event.before) = MAX_REQUESTS_PER_WINDOW
    /\ Len(_request_timestamps) = MAX_REQUESTS_PER_WINDOW
    /\ event.before[1] < now - WindowTicks
    /\ event.before[2] = _request_timestamps[1]

\* C28: the response of POST /deep-research has steps_completed = 7 for
\* every request that got past the rate limiter and the construction of the
\* agent, also when a stage raised and the response carries the error report
\* and a usage of zeros.
C28_StepsCompletedAlwaysSeven ==
    (DeepFinished /\ event.via = "http") =>
        /\ event.status = 200
        /\ event.response.steps_completed = 7
        /\ event.response.mode = "deep_research"
        /\ DeepFailed =>
              /\ StartsWith(event.response.result, "# **Deep Research Error**")
              /\ event.response.token_usage = ZeroUsage
              /\ Len(event.seen) <= DEEP_STAGES

\* The second stage's call raised after the first had reported its usage
C28_Witness ==
    /\ DeepFailed
    /\ event.via = "http"
    /\ event.ran = "market_analysis"
    /\ Len(event.seen) = 2
    /\ event.before.total_tokens > 0
    /\ event.response.steps_completed = 7
    /\ event.response.token_usage.total_tokens = 0

============================================================================
